---- MODULE Spec2Model ----
(***************************************************************************)
(* Model of the resilient multi-account orchestration core of the AWS      *)
(* FinOps dashboard: app/resilience.py (RateLimiter, CircuitBreaker,       *)
(* invoke_with_resilience), app/org_accounts.py and the multi-account      *)
(* aggregator of app/finops.py.                                            *)
(*                                                                         *)
(* Time is an integer clock `now`.  One tick is 1/rate seconds, so that    *)
(* the token bucket accrues exactly one token per tick (elapsed * rate)    *)
(* and reset_seconds lasts reset_seconds * rate ticks.                     *)
(***************************************************************************)
EXTENDS Integers, Sequences, FiniteSets, TLC

VARIABLES
    now,            \* time.monotonic(), in ticks
    fail_threshold, \* CircuitBreaker.fail_threshold
    reset_seconds,  \* CircuitBreaker.reset_seconds
    rate,           \* RateLimiter.rate (tokens per second = ticks per second)
    circuit,        \* CircuitBreaker._state : CircuitState
    consec,         \* history: record_failure calls since the last record_success
    tripped_at,     \* history: time at which consec reached fail_threshold
    admitted,       \* history: allow() calls that returned true since the trip
    probes,         \* history: half-open admissions since the last recorded outcome
    last_allow,     \* history: the last allow() call and what it returned
    last_rec,       \* history: the last record_success / record_failure call
    limiter,        \* RateLimiter: tokens, timestamp
    rl_lock,        \* RateLimiter.lock: its holder and the sleep it is in
    max_retries,    \* settings.max_retries, passed by AWSSessionManager.invoke
    inv,            \* per caller: the frame of its invoke_with_resilience call
    role_arn_acct,  \* the account id inside session_manager.role_arn (0: no role_arn)
    agg,            \* the frame of get_multi_account_costs and of its generator
    lim,            \* a caller of RateLimiter.acquire alone, and its history
    cache,          \* InMemoryCache (_CACHE): _max, _data, and the last operation
    sess,           \* AWSSessionManager: session, cache_expiry, and the last get_session
    org,            \* org_accounts: the settings, _account_cache, the last list_org_accounts
    fin,            \* FinOpsAnalyzer: the last call of one of its methods
    conc            \* the primitives' methods statement by statement: CircuitBreaker._lock,
                    \* each thread's place and local, what the counters should be

cbvars == <<fail_threshold, reset_seconds, rate, circuit>>
histvars == <<consec, tripped_at, admitted, probes, last_allow, last_rec>>
invvars == <<limiter, rl_lock, max_retries, inv>>
aggvars == <<role_arn_acct, agg>>
finvars == <<org, fin, conc>>
extvars == <<lim, cache, sess, finvars>>
vars == <<now, cbvars, histvars, invvars, aggvars, extvars>>

\* Python's None, for the Optional[float] timestamps
None == -1

\* ------------------------------------------------------------------ bounds
MaxFailThreshold == 2
MaxResetSeconds == 2
MaxFailures == 4
MaxRetries == 2
MaxAccounts == 3
MaxRate == 2
MaxAcquires == 4
MaxEntries == 2
MaxTtl == 2

\* the callers that share one RateLimiter and one CircuitBreaker
Threads == {"t1", "t2"}

\* the breaker specification's clock runs long enough for two full open windows
BreakerHorizon == 2 * MaxResetSeconds + 2

\* float("inf"), the expires_at of a CacheEntry that never expires
Inf == -2

\* ------------------------------------------------------ CircuitBreaker
\* CircuitState() : the dataclass defaults
CircuitState == [failures |-> 0, opened_at |-> None, half_open |-> FALSE]

\* reset_seconds in ticks
ResetTicks == reset_seconds * rate

\* CircuitBreaker.allow : the value returned at time t
AllowResult_Strict(c, t) ==
    IF c.opened_at = None THEN TRUE
    ELSE (t - c.opened_at) > ResetTicks

AllowResult(c, t) ==
    IF c.opened_at = None THEN TRUE
    ELSE (t - c.opened_at) >= ResetTicks

\* CircuitBreaker.allow : the state it leaves
AllowState(c, t) ==
    IF c.opened_at # None /\ (t - c.opened_at) >= ResetTicks
    THEN [c EXCEPT !.half_open = TRUE]
    ELSE c

RecordSuccess_KeepCount(c) == [c EXCEPT !.opened_at = None, !.half_open = FALSE]

\* CircuitBreaker.record_success
RecordSuccess(c) == CircuitState

RecordFailure_OpenLate(c, t) ==
    IF c.half_open
    THEN [failures |-> fail_threshold, opened_at |-> t, half_open |-> FALSE]
    ELSE LET f == c.failures + 1 IN
         IF f > fail_threshold /\ c.opened_at = None
         THEN [c EXCEPT !.failures = f, !.opened_at = t]
         ELSE [c EXCEPT !.failures = f]

RecordFailure_NoReopen(c, t) ==
    LET f == c.failures + 1 IN
    IF f >= fail_threshold /\ c.opened_at = None
    THEN [c EXCEPT !.failures = f, !.opened_at = t]
    ELSE [c EXCEPT !.failures = f]

\* CircuitBreaker.record_failure at time t
RecordFailure(c, t) ==
    IF c.half_open
    THEN [failures |-> fail_threshold, opened_at |-> t, half_open |-> FALSE]
    ELSE LET f == c.failures + 1 IN
         IF f >= fail_threshold /\ c.opened_at = None
         THEN [c EXCEPT !.failures = f, !.opened_at = t]
         ELSE [c EXCEPT !.failures = f]

\* CircuitBreaker.state : the first component of the tuple
State(c) ==
    IF c.opened_at = None THEN "closed"
    ELSE IF c.half_open THEN "half-open"
    ELSE "open"

\* --------------------------------------------------------- RateLimiter
Min(a, b) == IF a <= b THEN a ELSE b
Max(a, b) == IF a >= b THEN a ELSE b

\* RateLimiter.__init__(r) at time t : capacity = rate, a full bucket
RateLimiterInit(r, t) == [tokens |-> r, timestamp |-> t]

\* RateLimiter.capacity
Capacity == rate

\* the refill of acquire: tokens = min(capacity, tokens + elapsed * rate)
Refill_Uncapped(l, t) ==
    [tokens |-> l.tokens + (t - l.timestamp), timestamp |-> t]

Refill(l, t) ==
    [tokens |-> Min(Capacity, l.tokens + (t - l.timestamp)), timestamp |-> t]

\* sleep_for = (1.0 - tokens) / rate, in ticks
SleepFor(l) == 1 - l.tokens

Unlocked == [holder |-> "none", wake_at |-> None]

\* ------------------------------------------------------------- errors
ClientError(code) == [cls |-> "ClientError", code |-> code]
EndpointConnectionError == [cls |-> "EndpointConnectionError", code |-> "none"]
AWSSessionError == [cls |-> "AWSSessionError", code |-> "none"]
AWSRateLimitError == [cls |-> "AWSRateLimitError", code |-> "Circuit breaker open"]
NoError == [cls |-> "none", code |-> "none"]

TRANSIENT_ERROR_CODES ==
    {"Throttling", "ThrottlingException", "RequestLimitExceeded",
     "TooManyRequestsException", "RequestTimeout", "RequestTimeoutException",
     "InternalError", "InternalServerError", "ServiceUnavailable", "Unavailable"}

is_transient_error(e) ==
    IF e.cls = "EndpointConnectionError" THEN TRUE
    ELSE IF e.cls = "ClientError" THEN e.code \in TRANSIENT_ERROR_CODES
    ELSE FALSE

\* what the wrapped call can raise: a throttled and a rejected API call, a
\* connection failure, and a typed error from get_client inside _call
FuncErrors ==
    {ClientError("Throttling"), ClientError("ValidationException"),
     EndpointConnectionError, AWSSessionError}

\* ------------------------------------------- multi-account aggregation
\* account ids, as list_org_accounts returns them ('id' of each account)
AccountIds == 1..MaxAccounts

\* the lists list_org_accounts can return: distinct accounts, in listing order
AccountLists ==
    {l \in UNION {[1..n -> AccountIds] : n \in 0..MaxAccounts} :
        \A a, b \in DOMAIN l : a # b => l[a] # l[b]}

KeyError == [cls |-> "KeyError", code |-> "none"]

\* a caller of RateLimiter.acquire that has not called yet
IdleLim == [pc |-> "idle", first_at |-> None, done |-> 0, early |-> FALSE, low |-> FALSE]

\* no cache operation yet
NoOp ==
    [op |-> "none", key |-> <<>>, res |-> None, expired |-> FALSE,
     invoked |-> FALSE, out |-> "none", set_failed |-> FALSE]

\* InMemoryCache(max_entries): _data = {}
InMemoryCache(max_entries) == [max |-> max_entries, data |-> <<>>, last |-> NoOp]

\* self.session = None
NoSession == [strategy |-> "none"]

\* no get_session call yet
NoGet ==
    [n |-> 0, out |-> "none", err |-> NoError, cause |-> NoError,
     remediation |-> FALSE, reused |-> FALSE, established |-> FALSE,
     in_buffer |-> FALSE, no_base |-> FALSE,
     strategy |-> "none", identity_calls |-> 0, assume_calls |-> 0]

\* no diagnose_credentials call yet
NoDiag ==
    [n |-> 0, out |-> "none", err |-> NoError, auth_strategy |-> "none",
     base_chain_has_credentials |-> FALSE, has_static_keys |-> FALSE,
     remediation |-> 0, identity_calls |-> 0, assume_calls |-> 0]

\* AWSSessionManager.__init__ with the settings given (role_arn,
\* aws_access_key_id, aws_secret_access_key, aws_profile: set or not):
\* session = None, cache_expiry = None.  aware is whether cache_expiry is a
\* timezone-aware datetime.
AWSSessionManager(role_arn, key_id, secret, profile) ==
    [role_arn |-> role_arn, key_id |-> key_id, secret |-> secret, profile |-> profile,
     session |-> NoSession, cache_expiry |-> None, aware |-> FALSE, last |-> NoGet,
     diag |-> NoDiag]

IdleSess == AWSSessionManager(FALSE, FALSE, FALSE, FALSE)

\* the parts of the state that a specification about another part leaves alone
\* no list_org_accounts call yet
NoList ==
    [n |-> 0, out |-> "none", res |-> <<>>, seen |-> <<>>, ident |-> None,
     from_cache |-> FALSE, listed |-> FALSE, stored |-> FALSE]

\* OrganizationAccountCache.__init__ (_cached = None, _expiry = None) under
\* the settings given: single_account_mode, org_allowlist (the empty set for
\* None), org_exclude, org_cache_ttl.  _cached is <<None>> for None, else
\* the list of account ids.
OrganizationAccountCache(single, allow, exclude, ttl) ==
    [single_account_mode |-> single, org_allowlist |-> allow, org_exclude |-> exclude,
     org_cache_ttl |-> ttl, cached |-> <<None>>, expiry |-> None, last |-> NoList]

IdleOrg == OrganizationAccountCache(FALSE, {}, {}, 0)

\* no FinOpsAnalyzer method called yet
IdleFin == [op |-> "none"]

\* no thread inside a method of RateLimiter or CircuitBreaker
IdleConc ==
    [cb_lock |-> "none", th |-> [t \in Threads |-> [pc |-> "idle", tmp |-> 0]],
     counted |-> 0, expected |-> 0]

FinIdle ==
    /\ org = IdleOrg
    /\ fin = IdleFin
    /\ conc = IdleConc

ExtIdle ==
    /\ lim = IdleLim
    /\ cache = InMemoryCache(1)
    /\ sess = IdleSess
    /\ FinIdle

\* how get_session / sts.assume_role can end inside assume_member_role
\* (NoError: the role is assumed)
AssumeOutcomes ==
    {NoError, ClientError("AccessDenied"), AWSSessionError, EndpointConnectionError}

\* how client.get_cost_and_usage and the parsing of its response can end
BillingOutcomes ==
    {NoError, ClientError("AccessDeniedException"), EndpointConnectionError, KeyError}

\* assume_member_role: a session, None (`except ClientError`), or the error
\* that no except clause of it catches
assume_member_role(e) ==
    IF e = NoError THEN [ret |-> "session", exc |-> NoError]
    ELSE IF e.cls = "ClientError" THEN [ret |-> "None", exc |-> NoError]
    ELSE [ret |-> "raise", exc |-> e]

\* get_multi_account_costs: `except ClientError` around the query and the parsing
BillingCaught(e) == e.cls = "ClientError"

\* the frame of get_multi_account_costs: the generator's list and position,
\* the result map's keys, the exception that left the function; and, as
\* history, the accounts yielded and the failures met (account, stage)
IdleAgg ==
    [pc |-> "idle", accounts |-> <<>>, i |-> 0, results |-> {}, exc |-> NoError,
     yielded |-> {}, failures |-> {}]

\* ------------------------------------------------ invoke_with_resilience
\* The frame of one call: pc is the place in the while loop, the counters are
\* the history of this call (executions of func, tokens acquired, backoff
\* sleeps, breaker outcomes recorded, transient failures seen, the exception
\* caught when the call gave up and the non-transient one caught).
IdleFrame ==
    [pc |-> "idle", attempt |-> 0, execs |-> 0, acqs |-> 0,
     sleeps |-> 0, succ |-> 0, fail |-> 0, ntrans |-> 0, denied |-> FALSE,
     out |-> "none", err |-> NoError, caught |-> NoError, perm |-> NoError]

\* The clock is kept in a sliding window: once `now` has reached Window, a
\* tick moves every stored timestamp back by one instead.  Window is longer
\* than reset_seconds and than a full refill of the bucket, so a timestamp
\* that has slid to 0 is as old as any older one for allow() and acquire().
Window == Max(ResetTicks, Capacity) + 1
Slide(ts) == IF ts = None THEN None ELSE Max(0, ts - 1)

\* time passes
Tick ==
    /\ IF now < Window
       THEN /\ now' = now + 1
            /\ UNCHANGED <<circuit, limiter, rl_lock>>
       ELSE /\ now' = now
            /\ circuit' = [circuit EXCEPT !.opened_at = Slide(@)]
            /\ limiter' = [limiter EXCEPT !.timestamp = Slide(@)]
            /\ rl_lock' = [rl_lock EXCEPT !.wake_at = Slide(@)]
    /\ UNCHANGED <<fail_threshold, reset_seconds, rate, histvars, aggvars, max_retries, inv, extvars>>

\* a caller enters invoke_with_resilience(func, ..., max_retries = settings.max_retries)
Invoke(t) ==
    /\ inv[t].pc = "idle"
    /\ inv' = [inv EXCEPT ![t] = [IdleFrame EXCEPT !.pc = "allow"]]
    /\ UNCHANGED <<now, cbvars, histvars, aggvars, limiter, rl_lock, max_retries, extvars>>

\* the frame after `if not circuit.allow(): ... raise AWSRateLimitError`
CircuitCheckFrame_AfterAcquire(f, ok) ==
    IF ok THEN [f EXCEPT !.pc = "acquire"]
    ELSE [f EXCEPT !.pc = "done", !.denied = TRUE, !.out = "raise",
                   !.err = AWSRateLimitError, !.acqs = @ + 1]

CircuitCheckFrame(f, ok) ==
    IF ok THEN [f EXCEPT !.pc = "acquire"]
    ELSE [f EXCEPT !.pc = "done", !.denied = TRUE, !.out = "raise",
                   !.err = AWSRateLimitError]

\* top of the loop: circuit.allow(), and the fail-fast raise when it is false
CircuitCheck(t) ==
    /\ inv[t].pc = "allow"
    /\ circuit' = AllowState(circuit, now)
    /\ inv' = [inv EXCEPT ![t] = CircuitCheckFrame(@, AllowResult(circuit, now))]
    /\ UNCHANGED <<now, fail_threshold, reset_seconds, rate, histvars, aggvars, limiter, rl_lock, max_retries, extvars>>

\* rate_limiter.acquire(): take the lock and refill; consume when a token is
\* there, else sleep for the deficit with the lock held
Acquire(t) ==
    /\ inv[t].pc = "acquire"
    /\ rl_lock.holder = "none"
    /\ LET l == Refill(limiter, now) IN
       IF l.tokens < 1
       THEN /\ limiter' = l
            /\ rl_lock' = [holder |-> t, wake_at |-> now + SleepFor(l)]
            /\ inv' = [inv EXCEPT ![t].pc = "rl_sleep"]
       ELSE /\ limiter' = [l EXCEPT !.tokens = @ - 1]
            /\ rl_lock' = Unlocked
            /\ inv' = [inv EXCEPT ![t].pc = "func", ![t].acqs = @ + 1]
    /\ UNCHANGED <<now, cbvars, histvars, aggvars, max_retries, extvars>>

\* rate_limiter.acquire() after time.sleep(sleep_for): refill again, consume,
\* release the lock
AcquireWake(t) ==
    /\ inv[t].pc = "rl_sleep"
    /\ rl_lock.holder = t
    /\ now >= rl_lock.wake_at
    /\ limiter' = [Refill(limiter, now) EXCEPT !.tokens = @ - 1]
    /\ rl_lock' = Unlocked
    /\ inv' = [inv EXCEPT ![t].pc = "func", ![t].acqs = @ + 1]
    /\ UNCHANGED <<now, cbvars, histvars, aggvars, max_retries, extvars>>

\* func() returns: circuit.record_success(), return result
FuncReturn(t) ==
    /\ inv[t].pc = "func"
    /\ circuit' = RecordSuccess(circuit)
    /\ inv' = [inv EXCEPT ![t].pc = "done", ![t].execs = @ + 1, ![t].succ = @ + 1,
                          ![t].out = "return"]
    /\ UNCHANGED <<now, fail_threshold, reset_seconds, rate, histvars, aggvars, limiter, rl_lock, max_retries, extvars>>

\* `if not transient or attempt >= max_retries`: the failure ends the call
GivesUp_RetryAll(f, e) == f.attempt >= max_retries

GivesUp_OffByOne(f, e) == ~is_transient_error(e) \/ f.attempt > max_retries

GivesUp(f, e) == ~is_transient_error(e) \/ f.attempt >= max_retries

\* the error the except clause lets out: a bare `raise` of the caught error
Raised(e) == e

\* func() raises e: record the failure and re-raise, or back off and retry
FuncRaise(t, e) ==
    /\ inv[t].pc = "func"
    /\ LET f == inv[t]
           g == [f EXCEPT !.execs = @ + 1,
                          !.ntrans = IF is_transient_error(e) THEN @ + 1 ELSE @,
                          !.perm = IF is_transient_error(e) THEN @ ELSE e]
       IN IF GivesUp(f, e)
          THEN /\ circuit' = RecordFailure(circuit, now)
               /\ inv' = [inv EXCEPT ![t] = [g EXCEPT !.pc = "done", !.fail = @ + 1,
                                                     !.out = "raise", !.caught = e,
                                                     !.err = Raised(e)]]
          ELSE /\ circuit' = circuit
               /\ inv' = [inv EXCEPT ![t] = [g EXCEPT !.pc = "backoff", !.sleeps = @ + 1]]
    /\ UNCHANGED <<now, fail_threshold, reset_seconds, rate, histvars, aggvars, limiter, rl_lock, max_retries, extvars>>

\* time.sleep(exponential_backoff(...)) is over (full jitter: any duration
\* from 0 up): attempt += 1 and back to the top of the loop
BackoffWake(t) ==
    /\ inv[t].pc = "backoff"
    /\ inv' = [inv EXCEPT ![t].pc = "allow", ![t].attempt = @ + 1]
    /\ UNCHANGED <<now, cbvars, histvars, aggvars, limiter, rl_lock, max_retries, extvars>>

\* the caller has taken the result or the exception
Finish(t) ==
    /\ inv[t].pc = "done"
    /\ inv' = [inv EXCEPT ![t] = IdleFrame]
    /\ UNCHANGED <<now, cbvars, histvars, aggvars, limiter, rl_lock, max_retries, extvars>>

Step(t) ==
    \/ Invoke(t)
    \/ CircuitCheck(t)
    \/ Acquire(t)
    \/ AcquireWake(t)
    \/ FuncReturn(t)
    \/ \E e \in FuncErrors : FuncRaise(t, e)
    \/ BackoffWake(t)
    \/ Finish(t)

\* the state after construction, for settings drawn from the given sets
InitInvoke(thresholds, retries) ==
    /\ now = 0
    /\ fail_threshold \in thresholds
    /\ reset_seconds = 1
    /\ rate = 1
    /\ circuit = CircuitState
    /\ consec = 0
    /\ tripped_at = None
    /\ admitted = 0
    /\ probes = 0
    /\ last_allow = [res |-> FALSE, at |-> None, trip |-> None, first |-> FALSE,
                     reopen |-> None]
    /\ last_rec = [op |-> "none", at |-> None, probe |-> FALSE]
    /\ limiter = RateLimiterInit(rate, 0)
    /\ rl_lock = Unlocked
    /\ max_retries \in retries
    /\ inv = [t \in Threads |-> IdleFrame]

Init ==
    /\ InitInvoke(1..MaxFailThreshold, 0..MaxRetries)
    /\ role_arn_acct = 0
    /\ agg = IdleAgg
    /\ ExtIdle

Next ==
    \/ Tick
    \/ \E t \in Threads : Step(t)

Spec == Init /\ [][Next]_vars

\* the clock advances, the scheduler runs every caller, and a caller that
\* keeps finding the limiter's lock free at times does get it
FairSpec ==
    /\ Spec
    /\ WF_vars(Tick)
    /\ \A t \in Threads : WF_vars(Step(t)) /\ SF_vars(Acquire(t))

\* ------------------------------ get_multi_account_costs, step by step
\* the caller that runs get_cost_and_usage (through AWSSessionManager.invoke)
\* and get_multi_account_costs, one after the other
Caller == "t1"

Range(l) == {l[x] : x \in DOMAIN l}

\* FinOpsAnalyzer.get_cost_and_usage: the billing query is func of an invoke
GetCostAndUsage ==
    /\ agg.pc = "idle"
    /\ Step(Caller)

\* get_multi_account_costs is entered: results = {} and the generator is
\* created over list_org_accounts(session_manager)
AggStart ==
    /\ agg.pc = "idle"
    /\ inv[Caller].pc = "idle"
    /\ \E l \in AccountLists :
           agg' = [IdleAgg EXCEPT !.pc = "next", !.accounts = l, !.i = 1]
    /\ UNCHANGED <<now, cbvars, histvars, invvars, role_arn_acct, extvars>>

\* the for loop asks the generator for its next entry: the generator ends,
\* yields the next account with a client, skips an account, or raises
AggNext ==
    /\ agg.pc = "next"
    /\ IF agg.i > Len(agg.accounts)
       THEN agg' = [agg EXCEPT !.pc = "done"]
       ELSE LET acct == agg.accounts[agg.i] IN
            IF role_arn_acct # 0 /\ acct = role_arn_acct
            THEN \* session_manager.get_client('ce'), outside any try
                 \E g \in {NoError, AWSSessionError} :
                     IF g = NoError
                     THEN agg' = [agg EXCEPT !.pc = "query", !.yielded = @ \cup {acct}]
                     ELSE agg' = [agg EXCEPT !.pc = "done", !.exc = g,
                                  !.failures = @ \cup {<<acct, "client">>}]
            ELSE \E e \in AssumeOutcomes, client_ok \in BOOLEAN :
                     LET r == assume_member_role(e)
                         fs == IF e = NoError THEN agg.failures
                               ELSE agg.failures \cup {<<acct, "assume">>}
                     IN
                     IF r.ret = "raise"
                     THEN agg' = [agg EXCEPT !.pc = "done", !.exc = r.exc, !.failures = fs]
                     ELSE IF r.ret = "None"
                     THEN agg' = [agg EXCEPT !.i = @ + 1, !.failures = fs]
                     ELSE IF client_ok
                     THEN agg' = [agg EXCEPT !.pc = "query", !.yielded = @ \cup {acct}]
                     ELSE \* member_session.client('ce') fails: `except Exception`
                          agg' = [agg EXCEPT !.i = @ + 1,
                                  !.failures = @ \cup {<<acct, "client">>}]
    /\ UNCHANGED <<now, cbvars, histvars, invvars, role_arn_acct, extvars>>

\* the loop body: client.get_cost_and_usage(...) called on the client itself,
\* the response summed, results[acct['id']] written; `except ClientError`
AggQuery ==
    /\ agg.pc = "query"
    /\ \E b \in BillingOutcomes :
           LET acct == agg.accounts[agg.i] IN
           IF b = NoError
           THEN agg' = [agg EXCEPT !.pc = "next", !.i = @ + 1,
                        !.results = @ \cup {acct}]
           ELSE IF BillingCaught(b)
           THEN agg' = [agg EXCEPT !.pc = "next", !.i = @ + 1,
                        !.failures = @ \cup {<<acct, "billing">>}]
           ELSE agg' = [agg EXCEPT !.pc = "done", !.exc = b,
                        !.failures = @ \cup {<<acct, "billing">>}]
    /\ UNCHANGED <<now, cbvars, histvars, invvars, role_arn_acct, extvars>>

\* the caller has taken the map or the exception
AggFinish ==
    /\ agg.pc = "done"
    /\ agg' = IdleAgg
    /\ UNCHANGED <<now, cbvars, histvars, invvars, role_arn_acct, extvars>>

InitAgg ==
    /\ InitInvoke({MaxFailThreshold}, {MaxRetries})
    /\ role_arn_acct \in 0..MaxAccounts
    /\ agg = IdleAgg
    /\ ExtIdle

\* time passes between the caller's operations and inside an invoke
AggTick ==
    /\ agg.pc = "idle"
    /\ Tick

NextAgg ==
    \/ AggTick
    \/ GetCostAndUsage
    \/ AggStart
    \/ AggNext
    \/ AggQuery
    \/ AggFinish

SpecAgg == InitAgg /\ [][NextAgg]_vars

\* ------------------------------------------- the breaker driven directly
\* (as test_circuit_breaker_opens_and_resets drives it: any caller, any order)

NoAllow == [res |-> FALSE, at |-> None, trip |-> None, first |-> FALSE, reopen |-> None]
NoRec == [op |-> "none", at |-> None, probe |-> FALSE]

InitBreaker ==
    /\ now = 0
    /\ fail_threshold \in 1..MaxFailThreshold
    /\ reset_seconds \in 1..MaxResetSeconds
    /\ rate = 1
    /\ circuit = CircuitState
    /\ consec = 0
    /\ tripped_at = None
    /\ admitted = 0
    /\ probes = 0
    /\ last_allow = NoAllow
    /\ last_rec = NoRec
    /\ limiter = RateLimiterInit(1, 0)
    /\ rl_lock = Unlocked
    /\ max_retries = 0
    /\ inv = [t \in Threads |-> IdleFrame]
    /\ role_arn_acct = 0
    /\ agg = IdleAgg
    /\ ExtIdle

TickBreaker ==
    /\ now < BreakerHorizon
    /\ now' = now + 1
    /\ UNCHANGED <<cbvars, histvars, invvars, aggvars, extvars>>

CallAllow ==
    LET res == AllowResult(circuit, now) IN
    /\ circuit' = AllowState(circuit, now)
    /\ last_allow' = [res |-> res, at |-> now, trip |-> tripped_at,
                      first |-> (admitted = 0),
                      reopen |-> IF last_rec.op = "failure" /\ last_rec.probe
                                 THEN last_rec.at ELSE None]
    /\ admitted' = IF res /\ tripped_at # None /\ admitted = 0 THEN 1 ELSE admitted
    /\ probes' = IF res /\ State(circuit) # "closed" /\ probes < 2
                 THEN probes + 1 ELSE probes
    /\ UNCHANGED <<now, fail_threshold, reset_seconds, rate, consec, tripped_at, last_rec, invvars, aggvars, extvars>>

CallRecordSuccess ==
    /\ circuit' = RecordSuccess(circuit)
    /\ last_rec' = [op |-> "success", at |-> now, probe |-> (probes > 0)]
    /\ consec' = 0
    /\ tripped_at' = None
    /\ admitted' = 0
    /\ probes' = 0
    /\ UNCHANGED <<now, fail_threshold, reset_seconds, rate, last_allow, invvars, aggvars, extvars>>

CallRecordFailure ==
    /\ circuit.failures < MaxFailures
    /\ circuit' = RecordFailure(circuit, now)
    /\ last_rec' = [op |-> "failure", at |-> now, probe |-> (probes > 0)]
    /\ consec' = IF consec < fail_threshold THEN consec + 1 ELSE consec
    /\ tripped_at' = IF consec + 1 = fail_threshold THEN now ELSE tripped_at
    /\ admitted' = IF consec + 1 = fail_threshold THEN 0 ELSE admitted
    /\ probes' = 0
    /\ UNCHANGED <<now, fail_threshold, reset_seconds, rate, last_allow, invvars, aggvars, extvars>>

NextBreaker ==
    \/ TickBreaker
    \/ CallAllow
    \/ CallRecordSuccess
    \/ CallRecordFailure

SpecBreaker == InitBreaker /\ [][NextBreaker]_vars

\* ------------------------------------------------------------------ claims

\* C1: from Closed with failure count 0, after fail_threshold record_failure
\* calls with no record_success between them state() reports "open", every
\* allow() made before reset_seconds have elapsed since the breaker opened
\* returns false, and the first allow() made once they have elapsed returns true.
C1_OpenUntilReset ==
    /\ (tripped_at # None /\ admitted = 0) => State(circuit) = "open"
    /\ (last_allow.at # None /\ last_allow.trip # None /\ last_allow.first) =>
           (last_allow.res <=> (last_allow.at - last_allow.trip >= ResetTicks))

C1_Witness ==
    /\ last_allow.at # None /\ last_allow.trip # None /\ last_allow.first
    /\ last_allow.res
    /\ last_allow.at - last_allow.trip >= ResetTicks
    /\ consec = fail_threshold

\* C2: once an Open breaker's reset_seconds have elapsed, among the allow()
\* calls made before the probe's outcome is recorded exactly one returns true.
C2_SingleProbe == probes <= 1

\* C3: the first outcome recorded after a half-open admission decides the state:
\* record_success leaves the breaker Closed with failure counter 0;
\* record_failure leaves it Open with opened_at set to the time of that failure,
\* and allow() is false until a full reset_seconds have elapsed from then.
C3_ProbeOutcome ==
    /\ (last_rec.op = "success" /\ last_rec.probe) =>
           (State(circuit) = "closed" /\ circuit.failures = 0)
    /\ (last_rec.op = "failure" /\ last_rec.probe) =>
           /\ circuit.opened_at = last_rec.at
           /\ (probes = 0 => State(circuit) = "open")
    /\ (last_allow.reopen # None /\ last_allow.at - last_allow.reopen < ResetTicks) =>
           ~last_allow.res

C3_Witness ==
    /\ last_rec.op = "failure" /\ last_rec.probe
    /\ last_allow.reopen = last_rec.at
    /\ last_allow.at > last_allow.reopen
    /\ ~last_allow.res
    /\ State(circuit) = "open"

\* C4: when the breaker's allow() returns false, invoke_with_resilience raises
\* AWSRateLimitError and, in that round of the loop, neither executes the
\* wrapped call nor takes a rate-limiter token: the call's executions and
\* acquisitions are those of its earlier rounds, none when it is the first.
C4_FailFast ==
    \A t \in Threads :
        inv[t].denied =>
            /\ inv[t].pc = "done"
            /\ inv[t].out = "raise" /\ inv[t].err = AWSRateLimitError
            /\ inv[t].execs = inv[t].attempt
            /\ inv[t].acqs = inv[t].attempt
            /\ inv[t].fail = 0 /\ inv[t].succ = 0

C4_Witness ==
    \E t \in Threads :
        /\ inv[t].denied /\ inv[t].attempt = 0 /\ inv[t].acqs = 0
        /\ State(circuit) = "open"

\* C5 (safety part): the wrapped call is executed at most max_retries + 1 times,
\* each execution preceded by one token acquisition; a call that fails
\* transiently k <= max_retries times and then succeeds returns after exactly
\* k + 1 executions and k backoff sleeps and records one breaker success.
C5_Bounded ==
    \A t \in Threads :
        LET f == inv[t] IN
        /\ f.execs <= max_retries + 1
        /\ f.attempt <= max_retries
        /\ f.acqs = IF f.pc = "func" THEN f.execs + 1 ELSE f.execs
        /\ f.out = "return" =>
               /\ f.ntrans <= max_retries
               /\ f.execs = f.ntrans + 1
               /\ f.sleeps = f.ntrans
               /\ f.succ = 1 /\ f.fail = 0

\* C5: invoke_with_resilience always terminates, within the bounds of C5_Bounded.
C5_Terminates ==
    /\ []C5_Bounded
    /\ \A t \in Threads : (inv[t].pc = "allow") ~> (inv[t].pc = "done")

C5_Witness ==
    \E t \in Threads :
        /\ inv[t].out = "return"
        /\ inv[t].ntrans = max_retries /\ max_retries = MaxRetries
        /\ inv[t].execs = max_retries + 1

\* C6: a non-transient failure of the wrapped call ends the invoke at once:
\* no execution and no backoff sleep follows it, exactly one breaker failure is
\* recorded and that same error is re-raised, whatever max_retries is; when it
\* is the first outcome the call was executed exactly once.
C6_PermanentNotRetried ==
    \A t \in Threads :
        LET f == inv[t] IN
        f.perm # NoError =>
            /\ f.pc = "done"
            /\ f.out = "raise" /\ f.err = f.perm
            /\ f.fail = 1 /\ f.succ = 0
            /\ f.execs = f.ntrans + 1
            /\ f.sleeps = f.ntrans
            /\ (f.ntrans = 0 => (f.execs = 1 /\ f.sleeps = 0))

C6_Witness ==
    \E t \in Threads :
        /\ inv[t].perm = ClientError("ValidationException")
        /\ inv[t].execs = 1 /\ inv[t].attempt = 0
        /\ max_retries = MaxRetries

\* C7: when invoke_with_resilience exhausts max_retries on throttling-class
\* errors the error delivered to the caller is an AWSRateLimitError.
C7_ExhaustedIsRateLimitError ==
    \A t \in Threads :
        LET f == inv[t] IN
        (f.pc = "done" /\ f.out = "raise" /\ ~f.denied
            /\ f.caught = ClientError("Throttling")
            /\ f.ntrans = max_retries + 1) =>
            f.err.cls = "AWSRateLimitError"

\* C8: every outbound billing query, the one of get_cost_and_usage and each
\* per-account one of get_multi_account_costs, runs inside an invoke: in that
\* invoke allow() returned true and one token was acquired for it, and the
\* invoke that executed it records its outcome on the breaker.
C8_QueriesEnveloped ==
    /\ (agg.pc = "query" \/ \E t \in Threads : inv[t].pc = "func") =>
           \E t \in Threads :
               /\ inv[t].pc = "func"
               /\ ~inv[t].denied
               /\ inv[t].acqs = inv[t].execs + 1
    /\ \A t \in Threads :
           (inv[t].pc = "done" /\ ~inv[t].denied) => inv[t].succ + inv[t].fail = 1

\* C9: if the billing query, or the processing of its response, fails for
\* exactly one of the accounts (nothing else fails), whatever the failure, the
\* returned map has exactly the other accounts as keys and no exception escapes.
C9_PartialFailureIsolated ==
    \A a \in AccountIds :
        (agg.pc = "done" /\ agg.failures = {<<a, "billing">>}) =>
            /\ agg.exc = NoError
            /\ agg.results = Range(agg.accounts) \ {a}

\* C10: if assuming the member role fails for one account (nothing else
\* fails), whatever the failure, that account is skipped, every other listed
\* account is yielded and no exception escapes.
C10_AssumeFailureSkipped ==
    \A a \in AccountIds :
        (agg.pc = "done" /\ agg.failures = {<<a, "assume">>}) =>
            /\ agg.exc = NoError
            /\ agg.yielded = Range(agg.accounts) \ {a}

\* ------------------------------------- RateLimiter.acquire, called alone
\* One caller calls acquire() again and again; the clock advances between
\* the calls and during time.sleep.  first_at is the time the first call
\* began, done the number of calls that have returned.
LimHorizon == MaxAcquires + 1

InitLimiter ==
    /\ now = 0
    /\ fail_threshold = 1
    /\ reset_seconds = 1
    /\ rate \in 1..MaxRate
    /\ circuit = CircuitState
    /\ consec = 0
    /\ tripped_at = None
    /\ admitted = 0
    /\ probes = 0
    /\ last_allow = NoAllow
    /\ last_rec = NoRec
    /\ limiter = RateLimiterInit(rate, 0)
    /\ rl_lock = Unlocked
    /\ max_retries = 0
    /\ inv = [t \in Threads |-> IdleFrame]
    /\ role_arn_acct = 0
    /\ agg = IdleAgg
    /\ ExtIdle

LimTick ==
    /\ now < LimHorizon
    /\ now' = now + 1
    /\ UNCHANGED <<cbvars, histvars, invvars, aggvars, extvars>>

\* acquire(): refill; consume when a token is there, else time.sleep(sleep_for)
LimAcquire ==
    /\ lim.pc = "idle"
    /\ lim.done < MaxAcquires
    /\ LET l == Refill(limiter, now)
           first == IF lim.first_at = None THEN now ELSE lim.first_at IN
       IF l.tokens < 1
       THEN /\ limiter' = l
            /\ rl_lock' = [holder |-> Caller, wake_at |-> now + SleepFor(l)]
            /\ lim' = [lim EXCEPT !.pc = "sleep", !.first_at = first]
       ELSE /\ limiter' = [l EXCEPT !.tokens = @ - 1]
            /\ rl_lock' = Unlocked
            /\ lim' = [lim EXCEPT !.first_at = first, !.done = @ + 1]
    /\ UNCHANGED <<now, cbvars, histvars, max_retries, inv, aggvars, cache, sess, finvars>>

\* time.sleep(sleep_for) has returned, at or after its deadline when early is
\* false and before it when early is true: the second refill, and
\* `self.tokens -= 1.0`, which no test of the tokens precedes
LimWake(early) ==
    /\ lim.pc = "sleep"
    /\ early = (now < rl_lock.wake_at)
    /\ LET l == Refill(limiter, now) IN
        /\ limiter' = [l EXCEPT !.tokens = @ - 1]
        /\ lim' = [lim EXCEPT !.pc = "idle", !.done = @ + 1,
                              !.early = @ \/ early, !.low = @ \/ (l.tokens < 1)]
    /\ rl_lock' = Unlocked
    /\ UNCHANGED <<now, cbvars, histvars, max_retries, inv, aggvars, cache, sess, finvars>>

NextLimiter ==
    \/ LimTick
    \/ LimAcquire
    \/ \E early \in BOOLEAN : LimWake(early)

SpecLimiter == InitLimiter /\ [][NextLimiter]_vars

\* C11: after every acquire the tokens are within 0..capacity, and no acquire
\* has consumed a token when fewer than one was available after its wait,
\* whatever the times at which its wait ended.
C11_TokensInRange ==
    lim.pc = "idle" =>
        /\ 0 <= limiter.tokens
        /\ limiter.tokens <= Capacity
        /\ ~lim.low

\* C12: N > R sequential acquires that started on a full bucket and whose
\* waits lasted their sleep_for have taken at least (N - R) / R seconds,
\* which is N - R ticks of 1 / R seconds.
C12_Throughput ==
    (~lim.early /\ lim.done > Capacity) => now - lim.first_at >= lim.done - Capacity

C12_Witness ==
    /\ ~lim.early
    /\ rate = MaxRate
    /\ lim.done = MaxAcquires
    /\ now - lim.first_at = lim.done - Capacity
    /\ lim.first_at > 0

\* ------------------------------------------------------------ cache.py
\* Strings are sequences of tokens, so that str.startswith can be computed.
\* Two namespaces, one a prefix of the other; f is cached under "a" and
\* returns its argument, g is cached under "ab" and returns None.
CachedCalls ==
    {[ns |-> <<"a">>, name |-> "f", args |-> "(1,)"],
     [ns |-> <<"a">>, name |-> "f", args |-> "(2,)"],
     [ns |-> <<"a", "b">>, name |-> "g", args |-> "(1,)"]}

FuncResult(c) ==
    IF c.name = "g" THEN None ELSE IF c.args = "(1,)" THEN 1 ELSE 2

\* ttl_resolver(settings) of the decorator of f and of g: the longest ttl,
\* and 0 (the entry never expires)
TtlResolver(c) == IF c.name = "g" THEN 0 ELSE MaxTtl

\* cache_key(namespace, parts) = f"{namespace}:" + ":".join(str(p) for p in parts)
cache_key(namespace, parts) ==
    namespace \o <<":", parts[1], ":", parts[2], ":", parts[3]>>

\* the key of wrapper(*args): parts = (func.__name__, args, tuple(sorted(kwargs.items())))
CallKey(c) == cache_key(c.ns, <<c.name, c.args, "()">>)

Keys == {CallKey(c) : c \in CachedCalls}
ResultOfKey(k) == FuncResult(CHOOSE c \in CachedCalls : CallKey(c) = k)

\* the prefixes given to invalidate; "" (like None) matches every key
Prefixes == {<<>>, <<"a">>, <<"a", "b">>}
StartsWith(k, prefix) ==
    Len(prefix) <= Len(k) /\ SubSeq(k, 1, Len(prefix)) = prefix

\* the value given to set directly (None is stored by a call of g), and the
\* ttls given to set directly
SetValues == {1}
Ttls == 0..MaxTtl
CacheHorizon == MaxTtl

\* CacheEntry(value, ttl) at time t; ttl is kept as history
CacheEntry(k, v, ttl, t) ==
    [key |-> k, value |-> v, created_at |-> t,
     expires_at |-> IF ttl > 0 THEN t + ttl ELSE Inf, ttl |-> ttl]

\* CacheEntry.expired: time.time() >= self.expires_at
Expired_Late(e, t) == e.expires_at # Inf /\ t > e.expires_at

Expired(e, t) == e.expires_at # Inf /\ t >= e.expires_at

\* _data is a dict: a sequence of entries in insertion order, one per key
Index(data, k) ==
    IF \E i \in 1..Len(data) : data[i].key = k
    THEN CHOOSE i \in 1..Len(data) : data[i].key = k
    ELSE 0

Remove(data, i) == SubSeq(data, 1, i - 1) \o SubSeq(data, i + 1, Len(data))

\* InMemoryCache.get: whether it pops the entry, the value returned and the
\* _data left
GetExpired(data, k, t) ==
    LET i == Index(data, k) IN i # 0 /\ Expired(data[i], t)

GetResult(data, k, t) ==
    LET i == Index(data, k) IN
    IF i = 0 THEN None
    ELSE IF Expired(data[i], t) THEN None
    ELSE data[i].value

GetData(data, k, t) ==
    LET i == Index(data, k) IN
    IF i # 0 /\ Expired(data[i], t) THEN Remove(data, i) ELSE data

\* min(self._data.items(), key=lambda kv: kv[1].created_at): the first of
\* the entries with the smallest created_at
OldestIdx_Newest(data) ==
    CHOOSE i \in 1..Len(data) :
        \A j \in 1..Len(data) : data[i].created_at >= data[j].created_at

OldestIdx(data) ==
    CHOOSE i \in 1..Len(data) :
        \A j \in 1..Len(data) :
            \/ data[i].created_at < data[j].created_at
            \/ data[i].created_at = data[j].created_at /\ i <= j

\* InMemoryCache.set
SetData(data, mx, k, v, ttl, t) ==
    LET d == IF Len(data) >= mx THEN Remove(data, OldestIdx(data)) ELSE data
        i == Index(d, k)
        e == CacheEntry(k, v, ttl, t)
    IN IF i = 0 THEN Append(d, e) ELSE [d EXCEPT ![i] = e]

\* InMemoryCache.invalidate
InvalidateData(data, prefix) ==
    SelectSeq(data, LAMBDA e : ~StartsWith(e.key, prefix))

\* the wrapper of cached, when _CACHE.set raised: logger.debug, return result
CachedSetFailed_Raise(result) == [out |-> "raise", res |-> None]

CachedSetFailed(result) == [out |-> "return", res |-> result]

Op(o, k) == [NoOp EXCEPT !.op = o, !.key = k]

InitCache ==
    /\ InitInvoke({1}, {0})
    /\ role_arn_acct = 0
    /\ agg = IdleAgg
    /\ lim = IdleLim
    /\ \E m \in 1..MaxEntries : cache = InMemoryCache(m)
    /\ sess = IdleSess
    /\ FinIdle

CacheUnchanged == UNCHANGED <<now, cbvars, histvars, invvars, aggvars, lim, sess, finvars>>

CacheTick ==
    /\ now < CacheHorizon
    /\ now' = now + 1
    /\ UNCHANGED <<cbvars, histvars, invvars, aggvars, extvars>>

CacheGet(k) ==
    /\ cache' = [cache EXCEPT !.data = GetData(@, k, now),
                              !.last = [Op("get", k) EXCEPT !.res = GetResult(cache.data, k, now),
                                           !.expired = GetExpired(cache.data, k, now)]]
    /\ CacheUnchanged

CacheSet(k, v, ttl) ==
    /\ cache' = [cache EXCEPT !.data = SetData(@, cache.max, k, v, ttl, now),
                              !.last = Op("set", k)]
    /\ CacheUnchanged

CacheInvalidate(prefix) ==
    /\ cache' = [cache EXCEPT !.data = InvalidateData(@, prefix),
                              !.last = Op("invalidate", prefix)]
    /\ CacheUnchanged

\* InMemoryCache.stats reads _data and removes nothing
CacheStats ==
    /\ cache' = [cache EXCEPT !.last = Op("stats", <<>>)]
    /\ CacheUnchanged

\* a call of a function wrapped by cached: _CACHE.get(key); on a value that
\* is not None return it; else func(), _CACHE.set inside try/except, return
CachedCall(c, set_raises) ==
    LET key == CallKey(c)
        ttl == TtlResolver(c)
        val == GetResult(cache.data, key, now)
        d == GetData(cache.data, key, now)
        gone == GetExpired(cache.data, key, now)
    IN
    /\ IF val # None
       THEN /\ ~set_raises
            /\ cache' = [cache EXCEPT !.data = d,
                                      !.last = [Op("call", key) EXCEPT !.res = val, !.out = "return"]]
       ELSE LET result == FuncResult(c)
                end == IF set_raises THEN CachedSetFailed(result)
                       ELSE [out |-> "return", res |-> result]
            IN cache' = [cache EXCEPT
                   !.data = IF set_raises THEN d
                            ELSE SetData(d, cache.max, key, result, ttl, now),
                   !.last = [Op("call", key) EXCEPT !.res = end.res, !.out = end.out,
                                 !.expired = gone, !.invoked = TRUE,
                                 !.set_failed = set_raises]]
    /\ CacheUnchanged

NextCache ==
    \/ CacheTick
    \/ \E k \in Keys : CacheGet(k)
    \/ \E k \in Keys, v \in SetValues, ttl \in Ttls : CacheSet(k, v, ttl)
    \/ \E prefix \in Prefixes : CacheInvalidate(prefix)
    \/ CacheStats
    \/ \E c \in CachedCalls, set_raises \in BOOLEAN : CachedCall(c, set_raises)

SpecCache == InitCache /\ [][NextCache]_vars

\* a step that is a cache operation: its record is cache'.last.  (An
\* operation that leaves _data and the record as they were is the repetition
\* of an operation that is checked from the state stats leaves.)
IsOp == cache' # cache

\* the ttl of entry e has elapsed at time t
Elapsed(e, t) == e.ttl > 0 /\ t >= e.created_at + e.ttl

\* C13: a get of an entry set with ttl T > 0 returns its value before
\* created_at + T and leaves it; at or after created_at + T it returns None
\* and removes it; an entry set with ttl <= 0 is always returned; and set,
\* invalidate and stats never remove an entry for its expiry: what set
\* removes is its own key or the oldest entry of a full cache, what
\* invalidate removes starts with its prefix.
C13_Step ==
    IsOp =>
        LET op == cache'.last
            d == cache.data
            d2 == cache'.data
            i == Index(d, op.key)
        IN
        /\ (op.op = "get" /\ i # 0) =>
               IF Elapsed(d[i], now)
               THEN op.res = None /\ d2 = Remove(d, i)
               ELSE op.res = d[i].value /\ d2 = d
        /\ (op.op = "get" /\ i = 0) => (op.res = None /\ d2 = d)
        /\ op.op = "stats" => d2 = d
        /\ op.op = "set" =>
               \A j \in 1..Len(d) :
                   (\A x \in 1..Len(d2) : d2[x] # d[j]) =>
                       \/ d[j].key = op.key
                       \/ /\ Len(d) >= cache.max
                          /\ \A x \in 1..Len(d) : d[j].created_at <= d[x].created_at
        /\ op.op = "invalidate" =>
               \A j \in 1..Len(d) :
                   (\A x \in 1..Len(d2) : d2[x] # d[j]) <=> StartsWith(d[j].key, op.key)

C13_LazyExpiry == [][C13_Step]_vars

\* a get has just removed an entry whose ttl had elapsed, next to an older
\* entry that never expires
C13_Witness ==
    /\ cache.last.op = "get"
    /\ cache.last.expired
    /\ cache.last.res = None
    /\ Index(cache.data, cache.last.key) = 0
    /\ Len(cache.data) = 1
    /\ cache.data[1].ttl = 0
    /\ cache.data[1].created_at < now

\* C14: a set of a new key on a cache that holds max entries removes one
\* entry, one with the smallest created_at, keeps the others as they were and
\* adds the new one; a set below capacity removes no key.
C14_Step ==
    (IsOp /\ cache'.last.op = "set") =>
        LET k == cache'.last.key
            d == cache.data
            d2 == cache'.data
            kept == SubSeq(d2, 1, Len(d2) - 1)
        IN
        /\ (Index(d, k) = 0 /\ Len(d) = cache.max) =>
               /\ Len(d2) = cache.max
               /\ d2[Len(d2)].key = k
               /\ \E i \in 1..Len(d) :
                      /\ \A j \in 1..Len(d) : d[i].created_at <= d[j].created_at
                      /\ kept = Remove(d, i)
        /\ (Index(d, k) = 0 /\ Len(d) < cache.max) => kept = d
        /\ Len(d) < cache.max =>
               \A j \in 1..Len(d) : Index(d2, d[j].key) # 0

C14_EvictOldest == [][C14_Step]_vars

\* a full cache of two entries of different age has just got a third key
C14_Witness ==
    /\ cache.last.op = "set"
    /\ cache.max = MaxEntries
    /\ Len(cache.data) = MaxEntries
    /\ cache.data[Len(cache.data)].key = cache.last.key
    /\ cache.data[Len(cache.data)].created_at = now
    /\ cache.data[1].created_at > 0
    /\ cache.data[1].created_at < now

\* C15: a call of a cached function whose key has an entry that has not
\* expired returns the stored value and does not invoke the function; a call
\* whose key has no entry (never set, evicted, invalidated) or an expired one
\* invokes it.
C15_Step ==
    (IsOp /\ cache'.last.op = "call") =>
        LET op == cache'.last
            i == Index(cache.data, op.key)
            live == i # 0 /\ ~Elapsed(cache.data[i], now)
        IN
        /\ live => (~op.invoked /\ op.res = cache.data[i].value)
        /\ ~live => op.invoked

C15_Memoized == [][C15_Step]_vars

\* C16: when _CACHE.set raises in a call of a cached function the call
\* returns the result of the function, the cache keeps no entry of the call,
\* and the next call of the same key invokes the function again.
C16_Step ==
    (IsOp /\ cache'.last.op = "call") =>
        LET op == cache'.last IN
        /\ op.set_failed =>
               /\ op.out = "return"
               /\ op.invoked
               /\ op.res = ResultOfKey(op.key)
               /\ cache'.data = GetData(cache.data, op.key, now)
        /\ (cache.last.op = "call" /\ cache.last.set_failed /\ cache.last.key = op.key) =>
               op.invoked

C16_SetFailureTolerated == [][C16_Step]_vars

\* after a call whose cache write failed, the same call has recomputed a
\* value that is not None
C16_Witness ==
    /\ cache.last.op = "call"
    /\ cache.last.set_failed
    /\ cache.last.out = "return"
    /\ cache.last.res = 2
    /\ Index(cache.data, cache.last.key) = 0
    /\ Len(cache.data) = cache.max

\* ------------------------------------------- AWSSessionManager.get_session
\* The clock is datetime.now(), one tick is 5 minutes: the safety buffer of
\* _is_session_valid is one tick, DurationSeconds=3600 is twelve.
BufferTicks == 1
DurationTicks == 12
SessHorizon == DurationTicks + 2

NoCredentialsError == [cls |-> "NoCredentialsError", code |-> "none"]
TypeError == [cls |-> "TypeError", code |-> "none"]
FinOpsError(cls, message) == [cls |-> cls, code |-> message]

\* how sts.assume_role and sts.get_caller_identity can end
StsOutcomes ==
    {NoError, ClientError("AccessDenied"), ClientError("Throttling"),
     ClientError("ValidationError"), NoCredentialsError, EndpointConnectionError}

\* what a get_session call meets: base_creds, whether base.get_credentials()
\* is not None; temp_creds, the same for the temporary session of
\* _assume_role_session; assume and identity, how the two STS calls end;
\* aware, whether the Expiration of the assume_role response is a
\* timezone-aware datetime.  What the call does not reach is left at a default.
Scenario(b, tc, a, aw, i) ==
    [base_creds |-> b, temp_creds |-> tc, assume |-> a, aware |-> aw, identity |-> i]

Scenarios ==
    {Scenario(b, FALSE, NoError, FALSE, NoError) : b \in BOOLEAN}
    \cup {Scenario(b, TRUE, a, FALSE, NoError) : b \in BOOLEAN, a \in StsOutcomes}
    \cup {Scenario(b, TRUE, NoError, aw, i) : b \in BOOLEAN, aw \in BOOLEAN, i \in StsOutcomes}

\* _is_session_valid: "valid", "invalid", or the TypeError that comparing an
\* aware cache_expiry with the naive datetime.now() + timedelta raises
IsSessionValid_NoBuffer(m, t) ==
    IF m.session = NoSession THEN "invalid"
    ELSE IF m.cache_expiry = None THEN "valid"
    ELSE IF m.aware THEN "TypeError"
    ELSE IF m.cache_expiry <= t THEN "invalid"
    ELSE "valid"

IsSessionValid(m, t) ==
    IF m.session = NoSession THEN "invalid"
    ELSE IF m.cache_expiry = None THEN "valid"
    ELSE IF m.aware THEN "TypeError"
    ELSE IF m.cache_expiry <= t + BufferTicks THEN "invalid"
    ELSE "valid"

\* the except clauses of get_session: the error that leaves it
Reraised(e) ==
    IF e.cls = "NoCredentialsError"
    THEN FinOpsError("AWSSessionError", "AWS credentials not found")
    ELSE IF e.cls = "ClientError"
    THEN IF e.code \in {"AccessDenied", "AccessDeniedException", "UnauthorizedOperation"}
         THEN FinOpsError("AWSAuthorizationError", "Authorization failed")
         ELSE IF e.code \in {"Throttling", "ThrottlingException"}
         THEN FinOpsError("AWSRateLimitError", "Rate limited by AWS STS")
         ELSE FinOpsError("AWSSessionError", "AWS authentication failed")
    ELSE e

\* the branch of get_session taken for the settings of m
Strategy_ProfileFirst(m) ==
    IF m.role_arn THEN "assume_role"
    ELSE IF m.profile THEN "profile"
    ELSE IF m.key_id /\ m.secret THEN "static_keys"
    ELSE "default_chain"

Strategy(m) ==
    IF m.role_arn THEN "assume_role"
    ELSE IF m.key_id /\ m.secret THEN "static_keys"
    ELSE IF m.profile THEN "profile"
    ELSE "default_chain"

\* the pre-flight guard of the role branch: no base credentials and no
\* static key pair
Preflight_Off(m, base_creds) == FALSE

Preflight(m, base_creds) == ~base_creds /\ ~(m.key_id /\ m.secret)

\* the validation of a new session: sts.get_caller_identity(), once
Validate_Skipped(m, rec, identity) ==
    [m EXCEPT !.last = [rec EXCEPT !.out = "return"]]

Validate(m, rec, identity) ==
    IF identity = NoError
    THEN [m EXCEPT !.last = [rec EXCEPT !.out = "return", !.identity_calls = 1]]
    ELSE [m EXCEPT !.last = [rec EXCEPT !.out = "raise", !.err = Reraised(identity),
                                        !.cause = identity, !.identity_calls = 1]]

\* get_session at time t in scenario sc
GetSessionResult(m, t, sc) ==
    LET valid == IsSessionValid(m, t)
        rec == [NoGet EXCEPT !.n = 1 - m.last.n,
                   !.in_buffer = (m.session # NoSession /\ m.cache_expiry # None
                                  /\ m.cache_expiry <= t + BufferTicks)]
        try == [rec EXCEPT !.strategy = Strategy(m)]
        role == [try EXCEPT !.no_base = ~sc.base_creds]
        fresh == [strategy |-> Strategy(m)]
    IN
    IF valid = "TypeError"
    THEN [m EXCEPT !.last = [rec EXCEPT !.out = "raise", !.err = TypeError]]
    ELSE IF valid = "valid"
    THEN [m EXCEPT !.last = [rec EXCEPT !.out = "return", !.reused = TRUE]]
    ELSE IF Strategy(m) = "assume_role"
    THEN IF Preflight(m, sc.base_creds)
         THEN [m EXCEPT !.last = [role EXCEPT !.out = "raise", !.remediation = TRUE,
                   !.err = FinOpsError("AWSSessionError",
                               "No base credentials available to assume role")]]
         ELSE IF ~sc.temp_creds
         THEN [m EXCEPT !.last = [role EXCEPT !.out = "raise",
                   !.err = FinOpsError("AWSSessionError",
                               "Attempted to assume role without base credentials present")]]
         ELSE IF sc.assume # NoError
         THEN [m EXCEPT !.last = [role EXCEPT !.out = "raise", !.err = Reraised(sc.assume),
                                              !.cause = sc.assume, !.assume_calls = 1]]
         ELSE Validate([m EXCEPT !.session = fresh, !.cache_expiry = t + DurationTicks,
                                 !.aware = sc.aware],
                       [role EXCEPT !.assume_calls = 1, !.established = TRUE], sc.identity)
    ELSE Validate([m EXCEPT !.session = fresh], [try EXCEPT !.established = TRUE],
                  sc.identity)

InitSession ==
    /\ InitInvoke({1}, {0})
    /\ role_arn_acct = 0
    /\ agg = IdleAgg
    /\ lim = IdleLim
    /\ cache = InMemoryCache(1)
    /\ FinIdle
    /\ \E role_arn, key_id, secret, profile \in BOOLEAN :
           sess = AWSSessionManager(role_arn, key_id, secret, profile)

SessTick ==
    /\ now < SessHorizon
    /\ now' = now + 1
    /\ UNCHANGED <<cbvars, histvars, invvars, aggvars, extvars>>

GetSession ==
    /\ \E sc \in Scenarios : sess' = GetSessionResult(sess, now, sc)
    /\ UNCHANGED <<now, cbvars, histvars, invvars, aggvars, lim, cache, finvars>>

NextSession ==
    \/ SessTick
    \/ GetSession

SpecSession == InitSession /\ [][NextSession]_vars

\* ------------------------------------ AWSSessionManager.diagnose_credentials
\* an exception out of base.get_credentials(): get_session catches it around
\* its own probe, diagnose_credentials calls the probe bare
CredentialProbeError == [cls |-> "Exception", code |-> "none"]

\* how boto3.Session().get_credentials() can end: credentials, None, or raise
Probes == {"creds", "none", "raise"}

\* diagnose_credentials of manager m when the probe ends as probe
DiagnoseResult(m, probe) ==
    LET base_creds == (probe = "creds")
        has_static == m.key_id /\ m.secret
        strategy == IF m.role_arn THEN "assume_role"
                    ELSE IF has_static THEN "static_keys"
                    ELSE IF base_creds THEN "default_chain"
                    ELSE "none"
        first == IF strategy = "assume_role" /\ ~(base_creds \/ has_static) THEN 1 ELSE 0
        second == IF strategy = "none" THEN 1 ELSE 0
        rec == [NoDiag EXCEPT !.n = 1 - m.diag.n]
    IN
    IF probe = "raise"
    THEN [m EXCEPT !.diag = [rec EXCEPT !.out = "raise", !.err = CredentialProbeError]]
    ELSE [m EXCEPT !.diag = [rec EXCEPT !.out = "return", !.auth_strategy = strategy,
                                !.base_chain_has_credentials = base_creds,
                                !.has_static_keys = has_static,
                                !.remediation = first + second]]

DiagnoseCredentials ==
    /\ \E probe \in Probes : sess' = DiagnoseResult(sess, probe)
    /\ UNCHANGED <<now, cbvars, histvars, invvars, aggvars, lim, cache, finvars>>

\* the clock while diagnosing: diagnose_credentials reads no clock, two ticks
\* give it sessions resolved at different times
DiagHorizon == 2

DiagTick ==
    /\ now < DiagHorizon
    /\ now' = now + 1
    /\ UNCHANGED <<cbvars, histvars, invvars, aggvars, extvars>>

NextDiag ==
    \/ DiagTick
    \/ GetSession
    \/ DiagnoseCredentials

SpecDiag == InitSession /\ [][NextDiag]_vars

\* a step that is a get_session call: its record is sess'.last
IsGet == sess'.last.n # sess.last.n

\* C17: the session that get_session returns has no recorded expiry or one
\* later than now + 5 minutes; when the cached session was inside the buffer
\* the returned one is not the cached one but one resolved and validated in
\* this call, with a new expiry.
C17_Step ==
    (IsGet /\ sess'.last.out = "return") =>
        /\ sess'.cache_expiry = None \/ sess'.cache_expiry > now + BufferTicks
        /\ (sess.session # NoSession /\ sess.cache_expiry # None
              /\ sess.cache_expiry <= now + BufferTicks) =>
               /\ ~sess'.last.reused
               /\ sess'.last.assume_calls = 1
               /\ sess'.last.identity_calls = 1
               /\ sess'.cache_expiry = now + DurationTicks

C19_Step ==
    IsGet =>
        LET g == sess'.last IN
        /\ (g.established \/ (g.out = "return" /\ ~g.reused)) => g.identity_calls = 1
        /\ ~g.established => (g.identity_calls = 0 /\ sess'.session = sess.session)
        /\ g.cause.cls = "ClientError" =>
               /\ g.out = "raise"
               /\ g.err.cls =
                      IF g.cause.code \in {"AccessDenied", "AccessDeniedException",
                                           "UnauthorizedOperation"}
                      THEN "AWSAuthorizationError"
                      ELSE IF g.cause.code \in {"Throttling", "ThrottlingException"}
                      THEN "AWSRateLimitError"
                      ELSE "AWSSessionError"
        /\ g.cause.cls = "NoCredentialsError" =>
               (g.out = "raise" /\ g.err.cls = "AWSSessionError")
        /\ g.reused =>
               /\ g.out = "return"
               /\ sess'.session = sess.session
               /\ g.identity_calls = 0
               /\ g.assume_calls = 0

C20_Priority ==
    sess.last.strategy # "none" =>
        /\ sess.last.strategy =
               IF sess.role_arn THEN "assume_role"
               ELSE IF sess.key_id /\ sess.secret THEN "static_keys"
               ELSE IF sess.profile THEN "profile"
               ELSE "default_chain"
        /\ (sess.last.identity_calls = 1) => (sess.session.strategy = sess.last.strategy)

\* a key id without its secret, and a profile: the profile is used
C20_Witness ==
    /\ sess.last.out = "return"
    /\ ~sess.last.reused
    /\ sess.session.strategy = "profile"
    /\ sess.key_id /\ ~sess.secret

\* a step that is a diagnose_credentials call: its record is sess'.diag
IsDiag == sess'.diag.n # sess.diag.n

\* C21: a diagnose_credentials call returns (it does not raise), leaves
\* session and cache_expiry as they were, and calls neither assume_role nor
\* get_caller_identity.
C21_Step ==
    IsDiag =>
        /\ sess'.diag.out = "return"
        /\ sess'.session = sess.session
        /\ sess'.cache_expiry = sess.cache_expiry
        /\ sess'.diag.assume_calls = 0
        /\ sess'.diag.identity_calls = 0

C21_DiagnoseNeverRaises == [][C21_Step]_vars

\* ------------------------------------------ org_accounts.list_org_accounts
\* The clock is datetime.utcnow(), one tick is 600 seconds: the default of
\* `settings.org_cache_ttl or 1800` is three ticks.
DefaultOrgTtl == 3
MaxOrgTtl == 2
MaxPageSize == 2
OrgHorizon == DefaultOrgTtl + 1

\* the accounts of the organization: Id and Status (Name and Email are
\* copied through unchanged and left out)
OrgIds == {1, 2}
Statuses == {"ACTIVE", "SUSPENDED"}
Account(id, st) == [Id |-> id, Status |-> st]

\* what organizations.list_accounts can hold, in listing order
OrgListings ==
    {<<>>}
    \cup {<<Account(i, st)>> : i \in OrgIds, st \in Statuses}
    \cup UNION {{<<Account(i, st), Account(j, su)>> :
                     j \in OrgIds \ {i}, st \in Statuses, su \in Statuses} :
                 i \in OrgIds}

\* paginator.paginate(): the pages of a listing, size accounts to a page
RECURSIVE Paginate(_, _)
Paginate(listing, size) ==
    IF Len(listing) <= size THEN <<listing>>
    ELSE <<SubSeq(listing, 1, size)>>
             \o Paginate(SubSeq(listing, size + 1, Len(listing)), size)

\* how a call can go wrong: get_client raises (the typed error of
\* get_session; a ClientError cannot leave get_session, so the
\* `except ClientError` around get_client is not taken), or the paginator
\* raises while paging
OrgFailures == {"none", "get_client", "paginate"}

\* the three `continue` tests of the loop body, negated
Keep_IgnoreExclude(o, acct) ==
    /\ acct.Status = "ACTIVE"
    /\ ~(o.org_allowlist # {} /\ acct.Id \notin o.org_allowlist)

Keep(o, acct) ==
    /\ acct.Status = "ACTIVE"
    /\ ~(o.org_allowlist # {} /\ acct.Id \notin o.org_allowlist)
    /\ ~(acct.Id \in o.org_exclude)

\* for acct in page.get('Accounts', []): ... accounts.append(...)
RECURSIVE FilterPage(_, _, _)
FilterPage(o, page, accounts) ==
    IF page = <<>> THEN accounts
    ELSE FilterPage(o, Tail(page),
                    IF Keep(o, Head(page)) THEN Append(accounts, Head(page).Id)
                    ELSE accounts)

\* for page in paginator.paginate(): ...
RECURSIVE FilterPages(_, _, _)
FilterPages(o, pages, accounts) ==
    IF pages = <<>> THEN accounts
    ELSE FilterPages(o, Tail(pages), FilterPage(o, Head(pages), accounts))

\* OrganizationAccountCache.get at time t: <<None>> for None
OrgCacheGet(o, t) ==
    IF o.cached # <<None>> /\ o.cached # <<>> /\ o.expiry # None /\ t < o.expiry
    THEN o.cached
    ELSE <<None>>

\* OrganizationAccountCache.set at time t
OrgCacheSet(o, accounts, ttl_seconds, t) ==
    [o EXCEPT !.cached = accounts, !.expiry = t + ttl_seconds]

\* ttl = settings.org_cache_ttl or 1800
OrgTtl(o) == IF o.org_cache_ttl # 0 THEN o.org_cache_ttl ELSE DefaultOrgTtl

\* list_org_accounts at time t.  ident is the Account of get_caller_identity
\* (None: the single-account branch raised inside its try), listing and size
\* are what the paginator yields, failure is from OrgFailures.
ListResult(o, t, ident, listing, size, failure) ==
    LET rec == [NoList EXCEPT !.n = 1 - o.last.n]
        cached == OrgCacheGet(o, t)
        accounts == FilterPages(o, Paginate(listing, size), <<>>)
    IN
    IF o.single_account_mode
    THEN [o EXCEPT !.last = [rec EXCEPT !.out = "return", !.ident = ident,
                                !.res = IF ident = None THEN <<>> ELSE <<ident>>]]
    ELSE IF cached # <<None>>
    THEN [o EXCEPT !.last = [rec EXCEPT !.out = "return", !.res = cached,
                                        !.from_cache = TRUE]]
    ELSE IF failure = "get_client"
    THEN [o EXCEPT !.last = [rec EXCEPT !.out = "raise"]]
    ELSE IF failure = "paginate"
    THEN [o EXCEPT !.last = [rec EXCEPT !.out = "raise", !.listed = TRUE]]
    ELSE [OrgCacheSet(o, accounts, OrgTtl(o), t)
              EXCEPT !.last = [rec EXCEPT !.out = "return", !.res = accounts,
                                  !.seen = listing, !.listed = TRUE, !.stored = TRUE]]

InitOrg ==
    /\ InitInvoke({1}, {0})
    /\ role_arn_acct = 0
    /\ agg = IdleAgg
    /\ lim = IdleLim
    /\ cache = InMemoryCache(1)
    /\ sess = IdleSess
    /\ fin = IdleFin
    /\ conc = IdleConc
    /\ \E single \in BOOLEAN, allow \in SUBSET OrgIds, exclude \in SUBSET OrgIds,
          ttl \in 0..MaxOrgTtl :
           org = OrganizationAccountCache(single, allow, exclude, ttl)

OrgUnchanged ==
    UNCHANGED <<cbvars, histvars, invvars, aggvars, lim, cache, sess, fin, conc>>

OrgTick ==
    /\ now < OrgHorizon
    /\ now' = now + 1
    /\ UNCHANGED org
    /\ OrgUnchanged

\* an input that the call does not reach is left at a default
ListOrgAccounts ==
    /\ LET single == org.single_account_mode
           miss == ~single /\ OrgCacheGet(org, now) = <<None>>
       IN
       \E ident \in IF single THEN OrgIds \cup {None} ELSE {None},
          failure \in IF miss THEN OrgFailures ELSE {"none"} :
           LET paged == miss /\ failure = "none" IN
           \E listing \in IF paged THEN OrgListings ELSE {<<>>},
              size \in IF paged THEN 1..MaxPageSize ELSE {1} :
               org' = ListResult(org, now, ident, listing, size, failure)
    /\ UNCHANGED now
    /\ OrgUnchanged

NextOrg ==
    \/ OrgTick
    \/ ListOrgAccounts

SpecOrg == InitOrg /\ [][NextOrg]_vars

\* the ids, in listing order, of the accounts of a listing that are ACTIVE,
\* in the allowlist when there is one, and not excluded
Wanted(o, listing) ==
    LET Ok(a) == /\ a.Status = "ACTIVE"
                 /\ (o.org_allowlist = {} \/ a.Id \in o.org_allowlist)
                 /\ a.Id \notin o.org_exclude
        kept == SelectSeq(listing, Ok)
    IN [i \in 1..Len(kept) |-> kept[i].Id]

\* C22: outside single-account mode, a call that finds no fresh cached list
\* and returns has paged the listing and returns exactly the wanted ids of it,
\* in listing order; in single-account mode every call returns without paging
\* the listing, and what it returns is the caller's account alone (nothing
\* when the identity call failed).
C22_ListsFiltered ==
    LET l == org.last IN
    /\ (~org.single_account_mode /\ l.out = "return" /\ ~l.from_cache) =>
           (l.listed /\ l.res = Wanted(org, l.seen))
    /\ (org.single_account_mode /\ l.out # "none") =>
           /\ l.out = "return"
           /\ ~l.listed
           /\ l.res = IF l.ident = None THEN <<>> ELSE <<l.ident>>

\* two active accounts listed as 2, 1 on two pages come back as 2, 1
C22_Witness ==
    /\ ~org.single_account_mode
    /\ org.last.out = "return"
    /\ ~org.last.from_cache
    /\ org.org_allowlist = {1, 2}
    /\ org.last.seen = <<Account(2, "ACTIVE"), Account(1, "ACTIVE")>>
    /\ org.last.res = <<2, 1>>

\* a step that is a list_org_accounts call: its record is org'.last
IsList == org'.last.n # org.last.n

\* C23: once a listing has been stored, a call outside single-account mode
\* made before the stored expiry returns the stored list, whatever it is, and
\* does not page the listing; a call made at or after the expiry does not
\* answer from the store: it pages the whole listing again.
C23_Step ==
    (IsList /\ ~org.single_account_mode /\ org.cached # <<None>>) =>
        IF now < org.expiry
        THEN /\ org'.last.out = "return"
             /\ org'.last.res = org.cached
             /\ ~org'.last.listed
        ELSE /\ ~org'.last.from_cache
             /\ org'.last.out = "return" =>
                    (org'.last.listed /\ org'.last.res = Wanted(org, org'.last.seen))

C23_CachedUntilTtl == [][C23_Step]_vars

\* ----------------------- FinOpsAnalyzer.get_consolidated_billing_summary
\* [:10] of top_accounts
TopN == 10
MaxSummaryAccounts == 11

\* total_cost values, and the maps that get_multi_account_costs can return:
\* a dict in insertion order, here the sequence of its values, account_id
\* being the position
Costs == {1, 2}
Entry(i, c) == [account_id |-> i, total_cost |-> c]
AccountCosts ==
    UNION {{[i \in 1..k |-> Entry(i, f[i])] : f \in [1..k -> Costs]} :
               k \in 0..MaxSummaryAccounts}

\* sorted(values, key=total_cost, reverse=True): ordered by descending key,
\* entries of equal key in their original order.  Insert puts x behind every
\* entry whose key is not smaller.
RECURSIVE Insert_TiesReversed(_, _)
Insert_TiesReversed(sorted, x) ==
    IF sorted = <<>> THEN <<x>>
    ELSE IF Head(sorted).total_cost > x.total_cost
    THEN <<Head(sorted)>> \o Insert_TiesReversed(Tail(sorted), x)
    ELSE <<x>> \o sorted

RECURSIVE Insert(_, _)
Insert(sorted, x) ==
    IF sorted = <<>> THEN <<x>>
    ELSE IF Head(sorted).total_cost >= x.total_cost
    THEN <<Head(sorted)>> \o Insert(Tail(sorted), x)
    ELSE <<x>> \o sorted

RECURSIVE SortedDesc(_, _)
SortedDesc(values, sorted) ==
    IF values = <<>> THEN sorted
    ELSE SortedDesc(Tail(values), Insert(sorted, Head(values)))

TopAccounts(account_costs) ==
    LET all == SortedDesc(account_costs, <<>>) IN
    SubSeq(all, 1, Min(TopN, Len(all)))

\* sum(v['total_cost'] for v in account_costs.values())
RECURSIVE Total_OfTop(_)
Total_OfTop(values) ==
    IF values = <<>> THEN 0
    ELSE Head(values).total_cost + Total_OfTop(Tail(SubSeq(values, 1, Min(TopN, Len(values)))))

RECURSIVE Total(_)
Total(values) ==
    IF values = <<>> THEN 0 ELSE Head(values).total_cost + Total(Tail(values))

\* the dict that get_consolidated_billing_summary returns (the two period
\* strings left out)
Summary(account_costs) ==
    [total_consolidated_cost |-> Total(account_costs),
     accounts |-> account_costs,
     top_accounts |-> TopAccounts(account_costs),
     account_count |-> Len(account_costs)]

InitSummary ==
    /\ InitInvoke({1}, {0})
    /\ role_arn_acct = 0
    /\ agg = IdleAgg
    /\ lim = IdleLim
    /\ cache = InMemoryCache(1)
    /\ sess = IdleSess
    /\ org = IdleOrg
    /\ conc = IdleConc
    /\ \E m \in AccountCosts :
           fin = [op |-> "get_multi_account_costs", account_costs |-> m]

FinUnchanged ==
    UNCHANGED <<now, cbvars, histvars, invvars, aggvars, lim, cache, sess, org, conc>>

GetConsolidatedBillingSummary ==
    /\ fin.op = "get_multi_account_costs"
    /\ fin' = [op |-> "get_consolidated_billing_summary",
               account_costs |-> fin.account_costs,
               out |-> Summary(fin.account_costs)]
    /\ FinUnchanged

NextSummary == GetConsolidatedBillingSummary

SpecSummary == InitSummary /\ [][NextSummary]_vars

\* C24: the summary's total is the sum of total_cost over the entries of the
\* per-account map (each cost times the number of entries that have it), its
\* account_count is the number of entries, and its accounts is the map.
C24_TotalsAgree ==
    fin.op = "get_consolidated_billing_summary" =>
        LET m == fin.account_costs
            Having(c) == {i \in DOMAIN m : m[i].total_cost = c}
            PartSum[cs \in SUBSET Costs] ==
                IF cs = {} THEN 0
                ELSE LET c == CHOOSE x \in cs : TRUE
                     IN c * Cardinality(Having(c)) + PartSum[cs \ {c}]
        IN
        /\ fin.out.total_consolidated_cost = PartSum[Costs]
        /\ fin.out.account_count = Len(m)
        /\ fin.out.accounts = m

\* eleven accounts, more than top_accounts holds, of costs 1 and 2
C24_Witness ==
    /\ fin.op = "get_consolidated_billing_summary"
    /\ Len(fin.account_costs) = MaxSummaryAccounts
    /\ fin.out.account_count > Len(fin.out.top_accounts)
    /\ fin.out.total_consolidated_cost = Len(fin.account_costs) + 3

\* C25: top_accounts has min(10, account_count) entries, all of them entries
\* of the map and no entry twice; costs do not increase along it; no entry
\* left out costs more than an entry in it; entries of equal cost appear in
\* the order in which the map iterates.
C25_TopAccounts ==
    fin.op = "get_consolidated_billing_summary" =>
        LET m == fin.account_costs
            top == fin.out.top_accounts
            In == {top[i] : i \in DOMAIN top}
            All == {m[i] : i \in DOMAIN m}
        IN
        /\ Len(top) = Min(10, fin.out.account_count)
        /\ In \subseteq All
        /\ Cardinality(In) = Len(top)
        /\ \A i, j \in DOMAIN top : i < j => top[i].total_cost >= top[j].total_cost
        /\ \A a \in All \ In : \A b \in In : b.total_cost >= a.total_cost
        /\ \A i, j \in DOMAIN top :
               (i < j /\ top[i].total_cost = top[j].total_cost) =>
                   top[i].account_id < top[j].account_id

\* eleven accounts: ties inside top_accounts, a cheaper account left out,
\* and the first account of the map not first in top_accounts
C25_Witness ==
    /\ fin.op = "get_consolidated_billing_summary"
    /\ Len(fin.account_costs) = 11
    /\ Len(fin.out.top_accounts) = 10
    /\ fin.account_costs[1].total_cost = 1
    /\ fin.out.top_accounts[1].total_cost = 2
    /\ fin.out.top_accounts[2].total_cost = 2
    /\ fin.out.top_accounts[10].total_cost = 1

\* ------------------------------------- FinOpsAnalyzer.get_cost_and_usage
\* the classes of app/exceptions.py: FinOpsError and its subclasses, each with
\* an error_type and a context
FinOpsErrorClasses ==
    {"FinOpsError", "ConfigurationError", "AWSSessionError", "AWSAuthorizationError",
     "AWSRateLimitError", "CostDataRetrievalError", "TagComplianceError",
     "AnomalyDetectionError", "RecommendationRetrievalError"}

CostDataRetrievalError == [cls |-> "CostDataRetrievalError", code |-> "none"]

\* the one except clause of get_cost_and_usage around session_manager.invoke:
\* `except ClientError as e: raise CostDataRetrievalError(...) from e`; any
\* other exception passes through it
CostAndUsageRaised(e) ==
    IF e.cls = "ClientError" THEN CostDataRetrievalError ELSE e

\* C26: every exception that leaves get_cost_and_usage, that is every error
\* that leaves its invoke after passing the except clause, is of a FinOpsError
\* class.
C26_FailuresTyped ==
    \A t \in Threads :
        inv[t].out = "raise" => CostAndUsageRaised(inv[t].err).cls \in FinOpsErrorClasses

\* --------------------------------------- FinOpsAnalyzer._process_cost_data
MaxGroups == 3

\* a group of a result: its Keys (none, the service, the service and the
\* linked account) and its BlendedCost Amount
GroupKeys == {<<>>, <<"Amazon EC2">>, <<"Amazon S3", "111111111111">>}
Amounts == {1, 2}
Group(keys, amount) == [Keys |-> keys, Amount |-> amount]

\* a response is drawn as its groups in order, each with the number of
\* results begun before it: 0, the group is in the same result as the one
\* before; 1, it opens the next result; 2, an empty result lies between
Breaks == {0, 1, 2}
Listed == [keys : GroupKeys, amount : Amounts, breaks : Breaks]
GroupRuns == UNION {[1..k -> Listed] : k \in 0..MaxGroups}

\* response['ResultsByTime'] of a run: a list of lists of groups
RECURSIVE ResultsByTime(_, _)
ResultsByTime(run, results) ==
    IF run = <<>> THEN results
    ELSE LET g == Group(Head(run).keys, Head(run).amount)
             b == IF results = <<>> THEN Max(1, Head(run).breaks) ELSE Head(run).breaks
             n == Len(results)
         IN ResultsByTime(Tail(run),
                IF b = 0 THEN [results EXCEPT ![n] = Append(@, g)]
                ELSE IF b = 1 THEN Append(results, <<g>>)
                ELSE results \o <<<<>>, <<g>>>>)

\* d[k] = d.get(k, Decimal('0.00')) + cost
Add(d, k, cost) ==
    IF k \in DOMAIN d THEN [d EXCEPT ![k] = @ + cost] ELSE d @@ (k :> cost)

NoBreakdown == [k \in {} |-> 0]

\* the body of `for group in result.get('Groups', [])` applied to the
\* metrics m gathered so far
ProcessGroup(m, group) ==
    LET cost == group.Amount
        keys == group.Keys
        m1 == [m EXCEPT !.total_cost = @ + cost]
        m2 == IF Len(keys) >= 1
              THEN [m1 EXCEPT !.service_breakdown = Add(@, keys[1], cost)]
              ELSE m1
    IN IF Len(keys) >= 2
       THEN [m2 EXCEPT !.account_breakdown = Add(@, keys[2], cost)]
       ELSE m2

RECURSIVE ProcessGroups(_, _)
ProcessGroups(m, groups) ==
    IF groups = <<>> THEN m
    ELSE ProcessGroups(ProcessGroup(m, Head(groups)), Tail(groups))

\* `for result in response.get('ResultsByTime', [])`
RECURSIVE ProcessResults(_, _)
ProcessResults(m, results) ==
    IF results = <<>> THEN m
    ELSE ProcessResults(ProcessGroups(m, Head(results)), Tail(results))

\* _process_cost_data(response, ...): the CostMetrics (the period and the
\* always empty region_breakdown left out)
CostMetrics(results) ==
    ProcessResults([total_cost |-> 0, service_breakdown |-> NoBreakdown,
                    account_breakdown |-> NoBreakdown], results)

InitProcess ==
    /\ InitInvoke({1}, {0})
    /\ role_arn_acct = 0
    /\ agg = IdleAgg
    /\ lim = IdleLim
    /\ cache = InMemoryCache(1)
    /\ sess = IdleSess
    /\ org = IdleOrg
    /\ conc = IdleConc
    /\ \E run \in GroupRuns :
           fin = [op |-> "invoke", response |-> ResultsByTime(run, <<>>)]

ProcessCostData ==
    /\ fin.op = "invoke"
    /\ fin' = [op |-> "_process_cost_data", response |-> fin.response,
               out |-> CostMetrics(fin.response)]
    /\ FinUnchanged

NextProcess == ProcessCostData

SpecProcess == InitProcess /\ [][NextProcess]_vars

\* the sum of the values of a breakdown
RECURSIVE SumValues(_, _)
SumValues(d, ks) ==
    IF ks = {} THEN 0
    ELSE LET k == CHOOSE x \in ks : TRUE IN d[k] + SumValues(d, ks \ {k})

\* C27: in the CostMetrics of every response, the values of
\* service_breakdown add up to total_cost.
C27_BreakdownSumsToTotal ==
    fin.op = "_process_cost_data" =>
        SumValues(fin.out.service_breakdown, DOMAIN fin.out.service_breakdown)
            = fin.out.total_cost

\* ------------------------- FinOpsAnalyzer.detect_advanced_cost_anomalies
\* settings.anomaly_history_days and settings.anomaly_min_points are both
\* validated ge=7; anomalies[:10] is the cap of dispatch_anomaly_alert
MinHistoryDays == 7
MinMinPoints == 7
AlertCap == 10
MaxHistoryDays == 11
MaxMinPoints == 8

\* the points of a set of series indices, in series order
RECURSIVE InOrder(_)
InOrder(S) ==
    IF S = {} THEN <<>>
    ELSE LET least == CHOOSE x \in S : \A y \in S : x <= y
         IN <<least>> \o InOrder(S \ {least})

\* "anomalies": anomalies[:10] of the logged alert
AlertItems_Uncapped(anomalies) == anomalies

AlertItems(anomalies) == SubSeq(anomalies, 1, Min(AlertCap, Len(anomalies)))

\* dispatch_anomaly_alert(anomalies, context): the alert logged, if any
dispatch_anomaly_alert(anomalies) ==
    IF anomalies = <<>>
    THEN [dispatched |-> FALSE, items |-> <<>>]
    ELSE [dispatched |-> TRUE, items |-> AlertItems(anomalies)]

\* detect_advanced_cost_anomalies under settings st, when collected of the
\* daily get_cost_and_usage calls succeed and the detector flags the points
\* flagged of the series
DetectAdvanced(st, collected, flagged) ==
    LET rec == [op |-> "detect_advanced_cost_anomalies", settings |-> st,
                collected |-> collected, scored |-> FALSE, called |-> FALSE,
                dispatched |-> FALSE, items |-> <<>>, out |-> <<>>]
        anomalies == InOrder(flagged)
        alert == dispatch_anomaly_alert(anomalies)
    IN
    IF collected < st.anomaly_min_points
    THEN rec
    ELSE IF anomalies # <<>> /\ st.anomaly_alert_enabled
    THEN [rec EXCEPT !.scored = TRUE, !.out = anomalies, !.called = TRUE,
                     !.dispatched = alert.dispatched, !.items = alert.items]
    ELSE [rec EXCEPT !.scored = TRUE, !.out = anomalies]

InitAnomaly ==
    /\ InitInvoke({1}, {0})
    /\ role_arn_acct = 0
    /\ agg = IdleAgg
    /\ lim = IdleLim
    /\ cache = InMemoryCache(1)
    /\ sess = IdleSess
    /\ org = IdleOrg
    /\ conc = IdleConc
    /\ \E days \in MinHistoryDays..MaxHistoryDays,
          min_points \in MinMinPoints..MaxMinPoints, enabled \in BOOLEAN :
           fin = [op |-> "settings",
                  settings |-> [anomaly_history_days |-> days,
                                anomaly_min_points |-> min_points,
                                anomaly_alert_enabled |-> enabled]]

\* an input that the call does not reach is left at a default
DetectAdvancedCostAnomalies ==
    /\ fin.op = "settings"
    /\ \E collected \in 0..fin.settings.anomaly_history_days :
           \E flagged \in IF collected < fin.settings.anomaly_min_points THEN {{}}
                          ELSE SUBSET (1..collected) :
               fin' = DetectAdvanced(fin.settings, collected, flagged)
    /\ FinUnchanged

NextAnomaly == DetectAdvancedCostAnomalies

SpecAnomaly == InitAnomaly /\ [][NextAnomaly]_vars

\* C28: an alert was dispatched only if at least anomaly_min_points values
\* were collected, the detector returned an anomaly and alerting is enabled,
\* and it carries at most 10 items; a call that collected fewer than
\* anomaly_min_points values returned the empty list, scored nothing and
\* dispatched nothing.
C28_AlertGuarded ==
    fin.op = "detect_advanced_cost_anomalies" =>
        /\ fin.dispatched =>
               /\ fin.collected >= fin.settings.anomaly_min_points
               /\ Len(fin.out) >= 1
               /\ fin.settings.anomaly_alert_enabled
               /\ Len(fin.items) <= 10
        /\ fin.collected < fin.settings.anomaly_min_points =>
               /\ fin.out = <<>>
               /\ ~fin.scored
               /\ ~fin.called
               /\ ~fin.dispatched

\* eleven anomalies found, ten of them in the alert
C28_Witness ==
    /\ fin.op = "detect_advanced_cost_anomalies"
    /\ fin.dispatched
    /\ Len(fin.out) = 11
    /\ Len(fin.items) = 10

\* ---------------- RateLimiter and CircuitBreaker, statement by statement
\* Two threads call acquire, allow, record_success and record_failure in any
\* order.  A method is entered by taking the primitive's lock (`with
\* self.lock`, `with self._lock`); the read and the write of `tokens -= 1.0`
\* and of `failures += 1` are separate steps.  conc.expected and
\* conc.counted are what tokens and failures are if no update is lost.
ConcHorizon == 3

\* threading.Lock: the `with` statement enters when no thread holds the lock
Free_Always(holder) == TRUE

Free(holder) == holder = "none"

\* the places inside `with self.lock` of acquire and inside `with self._lock`
\* of allow, record_success, record_failure
InLimiter == {"rl_refill", "rl_sleep", "rl_read", "rl_write"}
InBreaker == {"allow_in", "success_in", "failure_in", "failure_write"}

At(t, pc) == conc.th[t].pc = pc
Goto(t, pc) == [conc EXCEPT !.th[t].pc = pc]

ConcUnchanged ==
    UNCHANGED <<fail_threshold, reset_seconds, rate, histvars, max_retries, inv,
                aggvars, lim, cache, sess, org, fin>>

InitLocks ==
    /\ InitInvoke(1..MaxFailThreshold, {0})
    /\ role_arn_acct = 0
    /\ agg = IdleAgg
    /\ lim = IdleLim
    /\ cache = InMemoryCache(1)
    /\ sess = IdleSess
    /\ org = IdleOrg
    /\ fin = IdleFin
    /\ conc = [IdleConc EXCEPT !.expected = limiter.tokens]

ConcTick ==
    /\ now < ConcHorizon
    /\ now' = now + 1
    /\ UNCHANGED <<circuit, limiter, rl_lock, conc>>
    /\ ConcUnchanged

\* a thread calls one of the four methods and stands before its `with`
ConcCall(t) ==
    /\ At(t, "idle")
    /\ \E m \in {"rl_with", "allow_with", "success_with", "failure_with"} :
           /\ m = "failure_with" => circuit.failures < MaxFailures
           /\ conc' = Goto(t, m)
    /\ UNCHANGED <<now, circuit, limiter, rl_lock>>
    /\ ConcUnchanged

\* acquire: `with self.lock:`
LimiterEnter(t) ==
    /\ At(t, "rl_with")
    /\ Free(rl_lock.holder)
    /\ rl_lock' = [holder |-> t, wake_at |-> None]
    /\ conc' = Goto(t, "rl_refill")
    /\ UNCHANGED <<now, circuit, limiter>>
    /\ ConcUnchanged

\* acquire: the refill, and time.sleep(sleep_for) begun when tokens < 1.0
LimiterRefill(t) ==
    /\ At(t, "rl_refill")
    /\ LET l == Refill(limiter, now) IN
       /\ limiter' = l
       /\ IF l.tokens < 1
          THEN /\ rl_lock' = [rl_lock EXCEPT !.wake_at = now + SleepFor(l)]
               /\ conc' = [Goto(t, "rl_sleep") EXCEPT
                              !.expected = Min(Capacity, @ + (now - limiter.timestamp))]
          ELSE /\ rl_lock' = rl_lock
               /\ conc' = [Goto(t, "rl_read") EXCEPT
                              !.expected = Min(Capacity, @ + (now - limiter.timestamp))]
    /\ UNCHANGED <<now, circuit>>
    /\ ConcUnchanged

\* acquire: the sleep is over, the second refill
LimiterWake(t) ==
    /\ At(t, "rl_sleep")
    /\ now >= rl_lock.wake_at
    /\ limiter' = Refill(limiter, now)
    /\ conc' = [Goto(t, "rl_read") EXCEPT
                   !.expected = Min(Capacity, @ + (now - limiter.timestamp))]
    /\ UNCHANGED <<now, circuit, rl_lock>>
    /\ ConcUnchanged

\* acquire: `self.tokens -= 1.0` reads tokens
LimiterRead(t) ==
    /\ At(t, "rl_read")
    /\ conc' = [Goto(t, "rl_write") EXCEPT !.th[t].tmp = limiter.tokens]
    /\ UNCHANGED <<now, circuit, limiter, rl_lock>>
    /\ ConcUnchanged

\* acquire: `self.tokens -= 1.0` writes tokens, and the `with` block ends
LimiterWrite(t) ==
    /\ At(t, "rl_write")
    /\ limiter' = [limiter EXCEPT !.tokens = conc.th[t].tmp - 1]
    /\ rl_lock' = Unlocked
    /\ conc' = [Goto(t, "idle") EXCEPT !.expected = @ - 1, !.th[t].tmp = 0]
    /\ UNCHANGED <<now, circuit>>
    /\ ConcUnchanged

\* allow, record_success, record_failure: `with self._lock:`
BreakerEnter(t) ==
    /\ \E m \in {"allow", "success", "failure"} :
           /\ At(t, m \o "_with")
           /\ Free(conc.cb_lock)
           /\ conc' = [Goto(t, m \o "_in") EXCEPT !.cb_lock = t]
    /\ UNCHANGED <<now, circuit, limiter, rl_lock>>
    /\ ConcUnchanged

\* allow: its body, and the `with` block ends
BreakerAllow(t) ==
    /\ At(t, "allow_in")
    /\ circuit' = AllowState(circuit, now)
    /\ conc' = [Goto(t, "idle") EXCEPT !.cb_lock = "none"]
    /\ UNCHANGED <<now, limiter, rl_lock>>
    /\ ConcUnchanged

\* record_success: self._state = CircuitState(), and the `with` block ends
BreakerSuccess(t) ==
    /\ At(t, "success_in")
    /\ circuit' = RecordSuccess(circuit)
    /\ conc' = [Goto(t, "idle") EXCEPT !.cb_lock = "none", !.counted = 0]
    /\ UNCHANGED <<now, limiter, rl_lock>>
    /\ ConcUnchanged

\* record_failure: the half-open reopen and return, or `failures += 1` reads
\* failures
BreakerFailureRead(t) ==
    /\ At(t, "failure_in")
    /\ IF circuit.half_open
       THEN /\ circuit' = RecordFailure(circuit, now)
            /\ conc' = [Goto(t, "idle") EXCEPT !.cb_lock = "none",
                                               !.counted = fail_threshold]
       ELSE /\ circuit' = circuit
            /\ conc' = [Goto(t, "failure_write") EXCEPT !.th[t].tmp = circuit.failures]
    /\ UNCHANGED <<now, limiter, rl_lock>>
    /\ ConcUnchanged

\* record_failure: `failures += 1` writes failures, the breaker opens at the
\* threshold, and the `with` block ends
BreakerFailureWrite(t) ==
    /\ At(t, "failure_write")
    /\ LET f == conc.th[t].tmp + 1 IN
       circuit' = IF f >= fail_threshold /\ circuit.opened_at = None
                  THEN [circuit EXCEPT !.failures = f, !.opened_at = now]
                  ELSE [circuit EXCEPT !.failures = f]
    /\ conc' = [Goto(t, "idle") EXCEPT !.cb_lock = "none", !.counted = @ + 1,
                                       !.th[t].tmp = 0]
    /\ UNCHANGED <<now, limiter, rl_lock>>
    /\ ConcUnchanged

ConcStep(t) ==
    \/ ConcCall(t)
    \/ LimiterEnter(t)
    \/ LimiterRefill(t)
    \/ LimiterWake(t)
    \/ LimiterRead(t)
    \/ LimiterWrite(t)
    \/ BreakerEnter(t)
    \/ BreakerAllow(t)
    \/ BreakerSuccess(t)
    \/ BreakerFailureRead(t)
    \/ BreakerFailureWrite(t)

NextLocks ==
    \/ ConcTick
    \/ \E t \in Threads : ConcStep(t)

SpecLocks == InitLocks /\ [][NextLocks]_vars

\* C29: at most one thread is inside acquire's `with` block and at most one
\* inside the `with` block of allow, record_success or record_failure; tokens
\* is what the refills and one decrement per acquire make it, and failures
\* is what one increment per record_failure makes it.
C29_CriticalSections ==
    /\ Cardinality({t \in Threads : conc.th[t].pc \in InLimiter}) <= 1
    /\ Cardinality({t \in Threads : conc.th[t].pc \in InBreaker}) <= 1
    /\ limiter.tokens = conc.expected
    /\ circuit.failures = conc.counted

\* one thread between the read and the write of `failures += 1`, after a
\* counted failure, while the other waits at the breaker's lock; the limiter
\* has given out its token
C29_Witness ==
    /\ conc.th["t1"].pc = "failure_write"
    /\ conc.th["t2"].pc = "failure_with"
    /\ circuit.failures = 1
    /\ limiter.tokens = 0

\* ------------------------------ breaker failures per invoke (C30)
\* a step in which thread t's func() raises and the invoke backs off to retry
Retries(t) == inv[t].pc = "func" /\ inv'[t].pc = "backoff"

\* a step in which thread t's func() raises and the invoke gives up
Fails(t) == inv[t].pc = "func" /\ inv'[t].pc = "done" /\ inv'[t].out = "raise"

\* a step in which thread t's func() returns
Succeeds(t) == inv[t].pc = "func" /\ inv'[t].pc = "done" /\ inv'[t].out = "return"

\* C30 (steps): a transient failure that is retried leaves the breaker as it
\* was; an invoke that gives up records one failure in that step, its only
\* one, and raises the error just caught: the breaker's count goes up by one
\* (to fail_threshold when a half-open probe fails) and the breaker is Open
\* once the count has reached fail_threshold; an invoke that gives up on a
\* transient error has executed max_retries + 1 times; the count goes down
\* only when an invoke succeeds or a probe reopens the breaker.
C30_Step ==
    /\ \A t \in Threads :
        /\ Retries(t) =>
               /\ circuit' = circuit
               /\ inv'[t].fail = 0
               /\ inv'[t].sleeps = inv[t].sleeps + 1
        /\ Fails(t) =>
               /\ inv[t].fail = 0 /\ inv'[t].fail = 1
               /\ inv'[t].err = inv'[t].caught
               /\ inv'[t].perm = NoError =>
                      (inv'[t].execs = max_retries + 1 /\ inv'[t].sleeps = max_retries)
               /\ circuit'.failures =
                      IF circuit.half_open THEN fail_threshold ELSE circuit.failures + 1
               /\ circuit'.failures >= fail_threshold => State(circuit') = "open"
    /\ circuit'.failures < circuit.failures =>
           \/ \E t \in Threads : Succeeds(t)
           \/ circuit'.failures = fail_threshold

C31_TripsOnlyAtThreshold ==
    /\ consec < fail_threshold =>
           (State(circuit) = "closed" /\ circuit.failures = consec)
    /\ last_rec.op = "success" => circuit.failures = 0
    /\ (last_allow.at # None /\ last_allow.trip = None) => last_allow.res

\* one failure short of the threshold, later than a tick after the start,
\* and the allow() that followed the failure returned true
C31_Witness ==
    /\ fail_threshold = MaxFailThreshold
    /\ consec = fail_threshold - 1
    /\ last_rec.op = "failure" /\ last_rec.at > 0
    /\ last_allow.at # None /\ last_allow.at >= last_rec.at
    /\ last_allow.trip = None /\ last_allow.res
    /\ State(circuit) = "closed"

\* ------------------- get_multi_account_costs, one statement at a time (C32)
MaxRespGroups == 2

IndexError == [cls |-> "IndexError", code |-> "none"]
KeyboardInterrupt == [cls |-> "KeyboardInterrupt", code |-> "none"]

\* the responses of client.get_cost_and_usage: resp['ResultsByTime'], of
\* groups with no key or one service
Responses ==
    LET listed == {l \in Listed : Len(l.keys) <= 1 /\ l.keys # <<"Amazon S3">>} IN
    {ResultsByTime(run, <<>>) : run \in UNION {[1..k -> listed] : k \in 0..MaxRespGroups}}

\* the account lists the generator walks
EntryAccountLists == {l \in AccountLists : Len(l) <= 2 /\ Range(l) \subseteq {1, 2}}

\* how the generator answers next(): an entry, an account passed over
\* (assume_member_role returned None), an error of its own
GeneratorOutcomes == {"yield", "skip", "raise"}

\* how client.get_cost_and_usage ends
QueryOutcomes == {NoError, ClientError("AccessDeniedException"), EndpointConnectionError}

\* the place of the two nested for loops: the first <<result, group>> at or
\* after <<r, g>> that holds a group, <<Len(resp) + 1, 1>> when both are over
RECURSIVE Seek(_, _, _)
Seek(resp, r, g) ==
    IF r > Len(resp) THEN <<r, 1>>
    ELSE IF g <= Len(resp[r]) THEN <<r, g>>
    ELSE Seek(resp, r + 1, 1)

LoopsOver_FirstResult(resp, pos) == pos[1] > Min(1, Len(resp))

\* both for loops have ended: the statement after them is next
LoopsOver(resp, pos) == pos[1] > Len(resp)

NoResults == [a \in {} |-> 0]

\* the locals of get_multi_account_costs: results, the generator's place,
\* entry["account"], resp, the place in the loops, total, service_breakdown
MultiFrame(accounts) ==
    [op |-> "get_multi_account_costs", pc |-> "next", accounts |-> accounts, i |-> 1,
     resp |-> <<>>, pos |-> <<1, 1>>, total |-> 0, service_breakdown |-> NoBreakdown,
     results |-> NoResults, exc |-> NoError]

InitEntries ==
    /\ InitInvoke({1}, {0})
    /\ role_arn_acct = 0
    /\ agg = IdleAgg
    /\ lim = IdleLim
    /\ cache = InMemoryCache(1)
    /\ sess = IdleSess
    /\ org = IdleOrg
    /\ conc = IdleConc
    /\ \E l \in EntryAccountLists : fin = MultiFrame(l)

\* `for entry in iter_account_cost_explorer_sessions(...)`: the next entry,
\* the end of the generator (`return results`), or the generator's error
MultiNext ==
    /\ fin.pc = "next"
    /\ IF fin.i > Len(fin.accounts)
       THEN fin' = [fin EXCEPT !.pc = "done"]
       ELSE \E o \in GeneratorOutcomes :
                fin' = IF o = "yield" THEN [fin EXCEPT !.pc = "query"]
                       ELSE IF o = "skip" THEN [fin EXCEPT !.i = @ + 1]
                       ELSE [fin EXCEPT !.pc = "done", !.exc = AWSSessionError]
    /\ FinUnchanged

\* resp = client.get_cost_and_usage(...); total = Decimal('0.00');
\* service_breakdown = {}; `except ClientError: continue`
MultiQuery ==
    /\ fin.pc = "query"
    /\ \E e \in QueryOutcomes :
           IF e = NoError
           THEN \E resp \in Responses :
                    fin' = [fin EXCEPT !.pc = "sum", !.resp = resp,
                            !.pos = Seek(resp, 1, 1), !.total = 0,
                            !.service_breakdown = NoBreakdown]
           ELSE IF BillingCaught(e)
           THEN fin' = [fin EXCEPT !.pc = "next", !.i = @ + 1]
           ELSE fin' = [fin EXCEPT !.pc = "done", !.exc = e]
    /\ FinUnchanged

\* the body of the inner loop for one group (group['Keys'][0] of an empty
\* Keys is an IndexError, which `except ClientError` lets through); after
\* the loops, results[acct['id']] = {...}
MultiSum ==
    /\ fin.pc = "sum"
    /\ IF LoopsOver(fin.resp, fin.pos)
       THEN LET id == fin.accounts[fin.i]
                entry == [account_id |-> id, total_cost |-> fin.total,
                          service_breakdown |-> fin.service_breakdown]
            IN fin' = [fin EXCEPT !.pc = "next", !.i = @ + 1,
                       !.results = [a \in DOMAIN @ \cup {id} |->
                                        IF a = id THEN entry ELSE @[a]]]
       ELSE LET group == fin.resp[fin.pos[1]][fin.pos[2]]
                cost == group.Amount
            IN IF group.Keys = <<>>
               THEN fin' = [fin EXCEPT !.pc = "done", !.exc = IndexError,
                            !.total = @ + cost]
               ELSE fin' = [fin EXCEPT !.total = @ + cost,
                            !.service_breakdown = Add(@, group.Keys[1], cost),
                            !.pos = Seek(fin.resp, fin.pos[1], fin.pos[2] + 1)]
    /\ FinUnchanged

\* the call is interrupted inside the loop body
MultiInterrupt ==
    /\ fin.pc \in {"query", "sum"}
    /\ fin' = [fin EXCEPT !.pc = "done", !.exc = KeyboardInterrupt]
    /\ FinUnchanged

NextEntries ==
    \/ MultiNext
    \/ MultiQuery
    \/ MultiSum
    \/ MultiInterrupt

SpecEntries == InitEntries /\ [][NextEntries]_vars

\* the Amounts of all groups of all results of a response
RECURSIVE AmountOf(_)
AmountOf(groups) ==
    IF groups = <<>> THEN 0 ELSE Head(groups).Amount + AmountOf(Tail(groups))

RECURSIVE AmountOfAll(_)
AmountOfAll(resp) ==
    IF resp = <<>> THEN 0 ELSE AmountOf(Head(resp)) + AmountOfAll(Tail(resp))

\* C32 (steps): the result map changes only by gaining one entry, for the
\* account being processed, which had none; that entry's total_cost is
\* the sum over every group of every result of the account's response and
\* its service_breakdown adds up to the same; the entries written before
\* are as they were.  A step that ends the call with an error, or passes
\* over an account, leaves the map as it was.
C32_Step ==
    LET id == fin.accounts[fin.i] IN
    /\ fin'.results # fin.results =>
           /\ fin.pc = "sum"
           /\ id \notin DOMAIN fin.results
           /\ DOMAIN fin'.results = DOMAIN fin.results \cup {id}
           /\ \A a \in DOMAIN fin.results : fin'.results[a] = fin.results[a]
           /\ fin'.results[id].total_cost = AmountOfAll(fin.resp)
           /\ SumValues(fin'.results[id].service_breakdown,
                        DOMAIN fin'.results[id].service_breakdown)
                  = AmountOfAll(fin.resp)
    /\ (fin'.exc # NoError \/ (fin.pc = "query" /\ fin'.pc = "next")) =>
           fin'.results = fin.results

\* C32: every step is as C32_Step says, and a call that an error ended
\* holds no entry for the account it was processing.
C32_EntriesComplete ==
    /\ [][C32_Step]_vars
    /\ []((fin.op = "get_multi_account_costs" /\ fin.pc = "done" /\ fin.exc # NoError)
             => fin.accounts[fin.i] \notin DOMAIN fin.results)

\* the first account's entry holds the sum of a response of two results,
\* and the second account failed in its second group
C32_Witness ==
    /\ fin.op = "get_multi_account_costs"
    /\ fin.pc = "done" /\ fin.exc = IndexError
    /\ fin.i = 2 /\ fin.pos = <<1, 2>>
    /\ DOMAIN fin.results = {fin.accounts[1]}
    /\ fin.results[fin.accounts[1]].total_cost = 3

\* ------------------------------ overwriting a key of a full cache (C39)
\* C39 (steps): a set of a key that has an entry, made when _data holds
\* max entries, leaves every key that had an entry with one and leaves the
\* number of entries as it was.
C39_Step ==
    (/\ IsOp
     /\ cache'.last.op = "set"
     /\ Index(cache.data, cache'.last.key) # 0
     /\ Len(cache.data) = cache.max)
    => /\ Len(cache'.data) = Len(cache.data)
       /\ \A i \in 1..Len(cache.data) : Index(cache'.data, cache.data[i].key) # 0

C39_OverwriteEvictsNothing == [][C39_Step]_vars

\* --------------- InMemoryCache, one statement at a time, two threads (C33)
CacheLockHorizon == 2

\* the ttls given to set: the entry never expires, or expires a tick later
LockTtls == {0, 1}

RLockFree_Always(holder, t) == TRUE

\* threading.RLock: free for a thread when nobody or that thread holds it
RLockFree(holder, t) == holder \in {"none", t}

\* self._data.get(key) when the key has no entry
NoEntry == [key |-> <<>>, value |-> None, created_at |-> None, expires_at |-> Inf, ttl |-> 0]

\* a thread outside the cache's methods, and the locals of a method
CacheThread ==
    [pc |-> "idle", key |-> <<>>, ttl |-> 0, prefix |-> <<>>, entry |-> NoEntry,
     oldest_key |-> <<>>, to_remove |-> <<>>]

\* self._data.pop(k, None)
Pop(data, k) == LET i == Index(data, k) IN IF i = 0 THEN data ELSE Remove(data, i)

\* self._data[key] = entry
Store(data, e) ==
    LET i == Index(data, e.key) IN IF i = 0 THEN Append(data, e) ELSE [data EXCEPT ![i] = e]

CAt(t, pc) == conc.th[t].pc = pc
Leave(t) == [conc EXCEPT !.lock = "none", !.th[t] = CacheThread]

InitCacheLocks ==
    /\ InitInvoke({1}, {0})
    /\ role_arn_acct = 0
    /\ agg = IdleAgg
    /\ lim = IdleLim
    /\ \E m \in 1..MaxEntries : cache = InMemoryCache(m)
    /\ sess = IdleSess
    /\ org = IdleOrg
    /\ fin = IdleFin
    /\ conc = [lock |-> "none", th |-> [t \in Threads |-> CacheThread]]

CacheLocksUnchanged ==
    UNCHANGED <<cbvars, histvars, invvars, aggvars, lim, sess, org, fin>>

CacheLocksTick ==
    /\ now < CacheLockHorizon
    /\ now' = now + 1
    /\ UNCHANGED <<cache, conc>>
    /\ CacheLocksUnchanged

\* a thread calls get, set or invalidate and passes `with self._lock:`
CacheEnter(t) ==
    /\ CAt(t, "idle")
    /\ RLockFree(conc.lock, t)
    /\ \/ \E k \in Keys :
              conc' = [conc EXCEPT !.lock = t,
                       !.th[t] = [CacheThread EXCEPT !.pc = "get_read", !.key = k]]
       \/ \E k \in Keys, ttl \in LockTtls :
              conc' = [conc EXCEPT !.lock = t,
                       !.th[t] = [CacheThread EXCEPT !.pc = "set_check", !.key = k,
                                                     !.ttl = ttl]]
       \/ \E prefix \in Prefixes :
              conc' = [conc EXCEPT !.lock = t,
                       !.th[t] = [CacheThread EXCEPT !.pc = "inv_list", !.prefix = prefix]]
    /\ UNCHANGED <<now, cache>>
    /\ CacheLocksUnchanged

\* get: entry = self._data.get(key); `if not entry: return None`
CacheGetRead(t) ==
    /\ CAt(t, "get_read")
    /\ LET i == Index(cache.data, conc.th[t].key) IN
       conc' = IF i = 0 THEN Leave(t)
               ELSE [conc EXCEPT !.th[t].pc = "get_expired", !.th[t].entry = cache.data[i]]
    /\ UNCHANGED <<now, cache>>
    /\ CacheLocksUnchanged

\* get: `if entry.expired(): self._data.pop(key, None)`; return
CacheGetExpired(t) ==
    /\ CAt(t, "get_expired")
    /\ cache' = IF Expired(conc.th[t].entry, now)
                THEN [cache EXCEPT !.data = Pop(@, conc.th[t].key)]
                ELSE cache
    /\ conc' = Leave(t)
    /\ UNCHANGED now
    /\ CacheLocksUnchanged

\* set: `if len(self._data) >= self._max:` and the min(...) that names the
\* oldest key
CacheSetCheck(t) ==
    /\ CAt(t, "set_check")
    /\ conc' = IF Len(cache.data) >= cache.max
               THEN [conc EXCEPT !.th[t].pc = "set_pop",
                                 !.th[t].oldest_key = cache.data[OldestIdx(cache.data)].key]
               ELSE [conc EXCEPT !.th[t].pc = "set_write"]
    /\ UNCHANGED <<now, cache>>
    /\ CacheLocksUnchanged

\* set: self._data.pop(oldest_key, None)
CacheSetPop(t) ==
    /\ CAt(t, "set_pop")
    /\ cache' = [cache EXCEPT !.data = Pop(@, conc.th[t].oldest_key)]
    /\ conc' = [conc EXCEPT !.th[t].pc = "set_write"]
    /\ UNCHANGED now
    /\ CacheLocksUnchanged

\* set: self._data[key] = CacheEntry(value, ttl); the lock is released
CacheSetWrite(t) ==
    /\ CAt(t, "set_write")
    /\ cache' = [cache EXCEPT
                    !.data = Store(@, CacheEntry(conc.th[t].key, 1, conc.th[t].ttl, now))]
    /\ conc' = Leave(t)
    /\ UNCHANGED now
    /\ CacheLocksUnchanged

\* invalidate: the list to_remove of the keys that start with the prefix
\* (every key for the prefix ""; clear(), for None, is a single statement)
CacheInvList(t) ==
    /\ CAt(t, "inv_list")
    /\ LET hit == SelectSeq(cache.data, LAMBDA e : StartsWith(e.key, conc.th[t].prefix)) IN
       conc' = [conc EXCEPT !.th[t].pc = "inv_pop",
                            !.th[t].to_remove = [i \in 1..Len(hit) |-> hit[i].key]]
    /\ UNCHANGED <<now, cache>>
    /\ CacheLocksUnchanged

\* invalidate: `for k in to_remove: self._data.pop(k, None)`, one round, and
\* the return after the last
CacheInvPop(t) ==
    /\ CAt(t, "inv_pop")
    /\ IF conc.th[t].to_remove = <<>>
       THEN /\ conc' = Leave(t)
            /\ cache' = cache
       ELSE /\ cache' = [cache EXCEPT !.data = Pop(@, Head(conc.th[t].to_remove))]
            /\ conc' = [conc EXCEPT !.th[t].to_remove = Tail(@)]
    /\ UNCHANGED now
    /\ CacheLocksUnchanged

CacheLocksStep(t) ==
    \/ CacheEnter(t)
    \/ CacheGetRead(t)
    \/ CacheGetExpired(t)
    \/ CacheSetCheck(t)
    \/ CacheSetPop(t)
    \/ CacheSetWrite(t)
    \/ CacheInvList(t)
    \/ CacheInvPop(t)

NextCacheLocks ==
    \/ CacheLocksTick
    \/ \E t \in Threads : CacheLocksStep(t)

SpecCacheLocks == InitCacheLocks /\ [][NextCacheLocks]_vars

\* the thread whose statement a step is
Acts(t) == conc'.th[t] # conc.th[t]

\* C33 (steps): an entry leaves _data, or is replaced, only in a step that
\* is the eviction of the then oldest entry of a then full cache, the pop
\* by get of an entry that has expired, the write of a set of the same
\* key, or a pop by invalidate of a key with its prefix; and the write of a
\* set leaves the key with the entry just made.
C33_Step ==
    /\ \A i \in 1..Len(cache.data) :
           LET e == cache.data[i]
               j == Index(cache'.data, e.key)
           IN (j = 0 \/ cache'.data[j] # e) =>
                  \E t \in Threads :
                      /\ Acts(t)
                      /\ \/ /\ CAt(t, "set_pop")
                            /\ Len(cache.data) >= cache.max
                            /\ OldestIdx(cache.data) = i
                         \/ /\ CAt(t, "get_expired")
                            /\ conc.th[t].key = e.key
                            /\ Expired(e, now)
                         \/ /\ CAt(t, "set_write")
                            /\ conc.th[t].key = e.key
                         \/ /\ CAt(t, "inv_pop")
                            /\ StartsWith(e.key, conc.th[t].prefix)
    /\ \A t \in Threads :
           (Acts(t) /\ CAt(t, "set_write")) =>
               LET j == Index(cache'.data, conc.th[t].key) IN
               /\ j # 0
               /\ cache'.data[j] = CacheEntry(conc.th[t].key, 1, conc.th[t].ttl, now)

\* C33: _data never holds more than max entries, at most one thread is
\* inside a method of the cache, and every step is as C33_Step says.
C33_CacheAtomic ==
    /\ [](Len(cache.data) <= cache.max)
    /\ [](Cardinality({t \in Threads : ~CAt(t, "idle")}) <= 1)
    /\ [][C33_Step]_vars

\* a full cache of two entries while one thread is about to pop the oldest
\* for its set and the other stands outside
C33_Witness ==
    /\ cache.max = 2 /\ Len(cache.data) = 2
    /\ CAt("t1", "set_pop") /\ CAt("t2", "idle")
    /\ conc.th["t1"].oldest_key # conc.th["t1"].key
    /\ Index(cache.data, conc.th["t1"].key) = 0
    /\ now > 0

\* ------- OrganizationAccountCache, one statement at a time, two callers (C34)
MaxOrgWrites == 3

\* the lists a caller of list_org_accounts stores after a listing
StoredLists == {<<>>, <<1>>, <<1, 2>>}

\* a caller outside list_org_accounts; w is the number of its
\* _account_cache.set call, and of its last get: the set whose list it
\* returned and the set whose expiry it had tested against the clock
OrgCaller ==
    [pc |-> "idle", accounts |-> <<>>, w |-> 0,
     hit |-> FALSE, list_of |-> 0, expiry_of |-> 0]

OAt(t, pc) == conc.th[t].pc = pc

InitOrgLocks ==
    /\ InitInvoke({1}, {0})
    /\ role_arn_acct = 0
    /\ agg = IdleAgg
    /\ lim = IdleLim
    /\ cache = InMemoryCache(1)
    /\ sess = IdleSess
    /\ fin = IdleFin
    /\ \E ttl \in 0..MaxOrgTtl : org = OrganizationAccountCache(FALSE, {}, {}, ttl)
    /\ conc = [th |-> [t \in Threads |-> OrgCaller], writes |-> 0,
               cached_of |-> 0, expiry_of |-> 0]

OrgLocksUnchanged ==
    UNCHANGED <<cbvars, histvars, invvars, aggvars, lim, cache, sess, fin>>

OrgLocksTick ==
    /\ now < OrgHorizon
    /\ now' = now + 1
    /\ UNCHANGED <<org, conc>>
    /\ OrgLocksUnchanged

\* get: `if self._cached`, the first operand of the test
OrgGetCached(t) ==
    /\ OAt(t, "idle")
    /\ conc' = IF org.cached # <<None>> /\ org.cached # <<>>
               THEN [conc EXCEPT !.th[t] = [OrgCaller EXCEPT !.pc = "get_expiry"]]
               ELSE [conc EXCEPT !.th[t] = [OrgCaller EXCEPT !.pc = "list"]]
    /\ UNCHANGED <<now, org>>
    /\ OrgLocksUnchanged

\* get: `and self._expiry and datetime.utcnow() < self._expiry`
OrgGetExpiry(t) ==
    /\ OAt(t, "get_expiry")
    /\ conc' = IF org.expiry # None /\ now < org.expiry
               THEN [conc EXCEPT !.th[t].pc = "get_return",
                                 !.th[t].expiry_of = conc.expiry_of]
               ELSE [conc EXCEPT !.th[t].pc = "list"]
    /\ UNCHANGED <<now, org>>
    /\ OrgLocksUnchanged

\* get: `return self._cached`; list_org_accounts returns it when it is not None
OrgGetReturn(t) ==
    /\ OAt(t, "get_return")
    /\ conc' = IF org.cached # <<None>>
               THEN [conc EXCEPT !.th[t].pc = "idle", !.th[t].hit = TRUE,
                                 !.th[t].accounts = org.cached,
                                 !.th[t].list_of = conc.cached_of]
               ELSE [conc EXCEPT !.th[t].pc = "list"]
    /\ UNCHANGED <<now, org>>
    /\ OrgLocksUnchanged

\* list_org_accounts after a miss: the listing and the filter, or an error
OrgList(t) ==
    /\ OAt(t, "list")
    /\ \/ conc' = [conc EXCEPT !.th[t] = OrgCaller]
       \/ /\ conc.writes < MaxOrgWrites
          /\ \E accounts \in StoredLists :
                 conc' = [conc EXCEPT !.th[t].pc = "set_cached",
                                      !.th[t].accounts = accounts]
    /\ UNCHANGED <<now, org>>
    /\ OrgLocksUnchanged

\* set: self._cached = accounts
OrgSetCached(t) ==
    /\ OAt(t, "set_cached")
    /\ org' = [org EXCEPT !.cached = conc.th[t].accounts]
    /\ conc' = [conc EXCEPT !.th[t].pc = "set_expiry", !.th[t].w = conc.writes + 1,
                            !.writes = @ + 1, !.cached_of = conc.writes + 1]
    /\ UNCHANGED now
    /\ OrgLocksUnchanged

\* set: self._expiry = datetime.utcnow() + timedelta(seconds=ttl_seconds)
OrgSetExpiry(t) ==
    /\ OAt(t, "set_expiry")
    /\ org' = [org EXCEPT !.expiry = now + OrgTtl(org)]
    /\ conc' = [conc EXCEPT !.th[t].pc = "idle", !.expiry_of = conc.th[t].w]
    /\ UNCHANGED now
    /\ OrgLocksUnchanged

OrgLocksStep(t) ==
    \/ OrgGetCached(t)
    \/ OrgGetExpiry(t)
    \/ OrgGetReturn(t)
    \/ OrgList(t)
    \/ OrgSetCached(t)
    \/ OrgSetExpiry(t)

NextOrgLocks ==
    \/ OrgLocksTick
    \/ \E t \in Threads : OrgLocksStep(t)

SpecOrgLocks == InitOrgLocks /\ [][NextOrgLocks]_vars

\* C34: no caller is inside the cache's get while another is inside its
\* set, and the list a get returned was stored by the set whose expiry the
\* get had tested.
C34_OrgCacheLocked ==
    /\ \A t, u \in Threads :
           ~(conc.th[t].pc \in {"get_expiry", "get_return"} /\ conc.th[u].pc = "set_expiry")
    /\ \A t \in Threads : conc.th[t].hit => conc.th[t].list_of = conc.th[t].expiry_of

\* ------------------------------ the strategy diagnose_credentials reports (C35)
\* C35: the auth_strategy a diagnose_credentials call returned is the branch
\* get_session takes under the same settings, or "none" when that branch is
\* the default chain and the chain holds no credentials; so with a profile
\* and neither role nor key pair it is "profile".
C35_DiagnosedStrategy ==
    sess.diag.out = "return" =>
        \/ sess.diag.auth_strategy = Strategy(sess)
        \/ /\ sess.diag.auth_strategy = "none"
           /\ Strategy(sess) = "default_chain"
           /\ ~sess.diag.base_chain_has_credentials

\* ------------------------------ Open to Closed only through a probe (C36)
\* C36 (steps): no step takes the breaker from Open (opened, no half-open
\* admission since) to Closed; the success of a call admitted before the
\* breaker opened leaves opened_at set.
C36_Step == State(circuit) = "open" => State(circuit') # "closed"

C36_ClosesOnlyThroughProbe == [][C36_Step]_vars

\* ------------------------------ only validated sessions are returned (C37)
\* C37 (steps): the get_session call that follows one that failed at the
\* identity-validation step resolves again and calls get_caller_identity,
\* or fails; it does not return the session the failed call left behind.
C37_Step ==
    (/\ IsGet
     /\ sess.last.out = "raise"
     /\ sess.last.established
     /\ sess.last.identity_calls = 1)
    => /\ ~sess'.last.reused
       /\ sess'.last.out = "return" => sess'.last.identity_calls = 1

C37_ValidatedBeforeReturned == [][C37_Step]_vars

\* ------------------------------ the breaker is asked before every attempt (C38)
\* C38 (steps): a backoff ends at the breaker check, and a call reaches the
\* rate limiter only from a check that allow() passed; when the check made
\* for a retry finds the breaker Open the invoke ends there raising
\* AWSRateLimitError, with its executions, its tokens and its recorded
\* failures as they were, and with the breaker's count, its opened_at and
\* the bucket untouched.
C38_Step ==
    \A t \in Threads :
        /\ (inv[t].pc = "backoff" /\ inv'[t] # inv[t]) =>
               (inv'[t].pc = "allow" /\ inv'[t].attempt = inv[t].attempt + 1)
        /\ (inv'[t].pc = "acquire" /\ inv[t].pc # "acquire") =>
               (inv[t].pc = "allow" /\ AllowResult(circuit, now))
        /\ (/\ inv[t].pc = "allow" /\ inv'[t] # inv[t]
            /\ inv[t].attempt > 0
            /\ ~AllowResult(circuit, now))
           => /\ inv'[t].pc = "done"
              /\ inv'[t].out = "raise"
              /\ inv'[t].err = AWSRateLimitError
              /\ inv'[t].execs = inv[t].execs
              /\ inv'[t].acqs = inv[t].acqs
              /\ inv'[t].fail = 0
              /\ circuit' = circuit
              /\ limiter' = limiter

C38_RetryRechecksBreaker == [][C38_Step]_vars

\* an invoke that had executed once and backed off was refused at its retry,
\* the breaker having been opened by the other caller's failure
C38_Witness ==
    \E t, u \in Threads :
        /\ t # u
        /\ inv[t].pc = "done" /\ inv[t].denied
        /\ inv[t].attempt = 1 /\ inv[t].execs = 1 /\ inv[t].acqs = 1
        /\ inv[t].err = AWSRateLimitError
        /\ inv[t].fail = 0
        /\ inv[u].fail = 1
        /\ State(circuit) = "open"

\* --------------- get_multi_account_costs behind its cached wrapper (C40)
\* the values the wrapper meets: None from a _CACHE.get that missed, and
\* the dict a call returned (here the set of its account ids)
NoneValue == [none |-> TRUE, map |-> {}]
Dict(m) == [none |-> FALSE, map |-> m]

IsNotNone_Truthy(val) == ~val.none /\ val.map # {}

\* `if val is not None`
IsNotNone(val) == ~val.none

\* the keys of two calls on one analyzer that differ in end_date
\* (cache_max_entries is at least 10: both fit)
CostArgs == {"(analyzer, d1, d2)", "(analyzer, d1, d3)"}
CostKey(args) == cache_key(<<"cost">>, <<"get_multi_account_costs", args, "()">>)

\* per account, how assume_member_role ends and, when it gave a session,
\* how the billing query and its parsing end
AccountOutcomes ==
    {<<NoError, b>> : b \in BillingOutcomes \ {KeyError}}
        \cup {<<e, NoError>> : e \in AssumeOutcomes \ {NoError, EndpointConnectionError}}

\* the listings of a call: no account, one, two
CostListings == {<<>>, <<1>>, <<1, 2>>}

\* the loop of get_multi_account_costs from account i on: the accounts in
\* the map so far, whether a role assumption or a billing query was made,
\* and the error that ended it
RECURSIVE Walk(_, _, _, _)
Walk(accounts, outs, i, r) ==
    IF i > Len(accounts) THEN r
    ELSE LET a == assume_member_role(outs[i][1])
             r1 == [r EXCEPT !.assumes = TRUE]
             r2 == [r1 EXCEPT !.queries = TRUE]
             b == outs[i][2]
         IN IF a.ret = "raise" THEN [r1 EXCEPT !.out = "raise", !.exc = a.exc]
            ELSE IF a.ret = "None" THEN Walk(accounts, outs, i + 1, r1)
            ELSE IF b = NoError
            THEN Walk(accounts, outs, i + 1, [r2 EXCEPT !.map = @ \cup {accounts[i]}])
            ELSE IF BillingCaught(b) THEN Walk(accounts, outs, i + 1, r2)
            ELSE [r2 EXCEPT !.out = "raise", !.exc = b]

MultiAccountCosts(accounts, outs) ==
    Walk(accounts, outs, 1,
         [out |-> "return", exc |-> NoError, map |-> {}, assumes |-> FALSE, queries |-> FALSE])

\* _CACHE.get(key) as the wrapper sees it
Fetched(data, k, t) ==
    LET i == Index(data, k) IN
    IF i = 0 \/ Expired(data[i], t) THEN NoneValue ELSE data[i].value

\* no call yet; per key, what the last call that ran the function returned
NoCached == [n |-> 0, key |-> <<>>, out |-> "none", map |-> {},
             invoked |-> FALSE, assumes |-> FALSE, queries |-> FALSE]
NoReturn == [at |-> None, map |-> {}]

\* wrapper(analyzer, start, end) of get_multi_account_costs at time t
CachedCosts(c, f, t, args, accounts, outs) ==
    LET key == CostKey(args)
        val == Fetched(c.data, key, t)
        d == GetData(c.data, key, t)
        rec == [NoCached EXCEPT !.n = 1 - f.last.n, !.key = key]
    IN
    IF IsNotNone(val)
    THEN [cache |-> [c EXCEPT !.data = d],
          fin |-> [f EXCEPT !.last = [rec EXCEPT !.out = "return", !.map = val.map]]]
    ELSE LET r == MultiAccountCosts(accounts, outs)
             run == [rec EXCEPT !.out = r.out, !.invoked = TRUE,
                                !.assumes = r.assumes, !.queries = r.queries,
                                !.map = IF r.out = "return" THEN r.map ELSE {}]
         IN IF r.out = "raise"
            THEN [cache |-> [c EXCEPT !.data = d], fin |-> [f EXCEPT !.last = run]]
            ELSE [cache |-> [c EXCEPT !.data = SetData(d, c.max, key, Dict(r.map), f.ttl, t)],
                  fin |-> [f EXCEPT !.last = run,
                                    !.returned[key] = [at |-> t, map |-> r.map]]]

InitCachedCosts ==
    /\ InitInvoke({1}, {0})
    /\ role_arn_acct = 0
    /\ agg = IdleAgg
    /\ lim = IdleLim
    /\ cache = InMemoryCache(Cardinality(CostArgs))
    /\ sess = IdleSess
    /\ org = IdleOrg
    /\ conc = IdleConc
    /\ fin = [op |-> "cached", ttl |-> MaxTtl, last |-> NoCached,
              returned |-> [k \in {CostKey(a) : a \in CostArgs} |-> NoReturn]]

CachedCostsUnchanged ==
    UNCHANGED <<cbvars, histvars, invvars, aggvars, lim, sess, org, conc>>

CachedCostsTick ==
    /\ now < MaxTtl + 1
    /\ now' = now + 1
    /\ UNCHANGED <<cache, fin>>
    /\ CachedCostsUnchanged

\* the listing and the outcomes are drawn only when the function will run
GetMultiAccountCosts ==
    /\ \E args \in CostArgs :
           LET hit == IsNotNone(Fetched(cache.data, CostKey(args), now)) IN
           \E accounts \in IF hit THEN {<<>>} ELSE CostListings :
               \E outs \in [1..Len(accounts) -> AccountOutcomes] :
                   LET r == CachedCosts(cache, fin, now, args, accounts, outs) IN
                   /\ cache' = r.cache
                   /\ fin' = r.fin
    /\ UNCHANGED now
    /\ CachedCostsUnchanged

NextCachedCosts ==
    \/ CachedCostsTick
    \/ GetMultiAccountCosts

SpecCachedCosts == InitCachedCosts /\ [][NextCachedCosts]_vars

\* a step that is a call of the wrapper: its record is fin'.last
IsCostsCall == fin'.last.n # fin.last.n

\* C40 (steps): a call made with the arguments of a call that returned
\* less than the cost ttl ago returns the map that call returned, empty or
\* partial as it may be, without running the function (no role assumption,
\* no billing query); a call that runs the function and returns leaves its
\* map in the cache under its key; a call that raises leaves no entry
\* under its key.
C40_Step ==
    IsCostsCall =>
        LET g == fin'.last
            before == fin.returned[g.key]
            i == Index(cache'.data, g.key)
        IN
        /\ (before.at # None /\ now < before.at + fin.ttl) =>
               /\ g.out = "return"
               /\ g.map = before.map
               /\ ~g.invoked
               /\ ~g.assumes /\ ~g.queries
        /\ (g.invoked /\ g.out = "return") =>
               (i # 0 /\ cache'.data[i].value = Dict(g.map) /\ cache'.data[i].created_at = now)
        /\ g.out = "raise" => i = 0

C40_PartialResultCached == [][C40_Step]_vars

\* a call that omitted every account stored the empty map, and the repeat
\* a tick later, inside the ttl, returned it from the cache
C40_Witness ==
    LET g == fin.last IN
    /\ fin.op = "cached"
    /\ g.out = "return" /\ ~g.invoked
    /\ g.map = {}
    /\ fin.returned[g.key].at # None
    /\ now > fin.returned[g.key].at
    /\ now < fin.returned[g.key].at + fin.ttl

====
